---------------------------- MODULE Spec2Model ----------------------------
(***************************************************************************)
(* Titration analysis backend (app/backend): chemistry model (chem.py),    *)
(* peak detection (peaks.py) and the compute endpoint (main.py).           *)
(*                                                                         *)
(* Numbers.  The program computes in floating point; the model computes    *)
(* in exact rationals <<n, d>> (d > 0, lowest terms).  Concentrations are  *)
(* counted in units of K_A2 (0.012 mol/L), so that K_A2 is the number 1.   *)
(* 10 ** (-pH) and K_W / h cannot be represented next to K_A2 in TLC's     *)
(* 32-bit integers (K_W / K_A2^2 is about 7e-11): H+ and OH- of a pH value  *)
(* are read from a table chem the initial state draws from ChemTables, so  *)
(* every value the two conversions can take on the grid is covered.        *)
(* The peak detector works on its own scale: pH in units of 0.1 pH and     *)
(* excess base in units of 1e-5 mol/L.                                     *)
(***************************************************************************)
EXTENDS Integers, Sequences, FiniteSets, TLC

-----------------------------------------------------------------------------
(* Exact rational arithmetic *)

RECURSIVE Gcd(_, _)
Gcd(a, b) == IF b = 0 THEN a ELSE Gcd(b, a % b)

IAbs(i) == IF i < 0 THEN -i ELSE i

\* the rational n/d in lowest terms with a positive denominator (d # 0)
R(n, d) ==
    LET g == Gcd(IAbs(n), IAbs(d))
        s == IF d < 0 THEN -1 ELSE 1
    IN  <<s * (n \div g), s * (d \div g)>>

RInt(i) == <<i, 1>>
Zero == RInt(0)
\* sums and products cancel common factors first, so that intermediate
\* products stay small
RAdd(a, b) ==
    LET g == Gcd(a[2], b[2])
    IN  R(a[1] * (b[2] \div g) + b[1] * (a[2] \div g), (a[2] \div g) * b[2])
RNeg(a) == <<-a[1], a[2]>>
RSub(a, b) == RAdd(a, RNeg(b))
RMul(a, b) ==
    LET x == R(a[1], b[2])
        y == R(b[1], a[2])
    IN  R(x[1] * y[1], x[2] * y[2])
RDiv(a, b) == RMul(a, R(b[2], b[1]))
RLess(a, b) ==
    LET g == Gcd(a[2], b[2])
    IN  a[1] * (b[2] \div g) < b[1] * (a[2] \div g)
RLeq(a, b) == ~RLess(b, a)
RAbs(a) == <<IAbs(a[1]), a[2]>>
RIsZero(a) == a[1] = 0
RSign(a) == IF a[1] > 0 THEN 1 ELSE IF a[1] < 0 THEN -1 ELSE 0

\* Python's max(a, b) and min(a, b): the first argument wins a tie
RMax(a, b) == IF RLess(a, b) THEN b ELSE a
RMin(a, b) == IF RLess(b, a) THEN b ELSE a

\* 2 ** k
RECURSIVE Pow2(_)
Pow2(k) == IF k = 0 THEN 1 ELSE 2 * Pow2(k - 1)

-----------------------------------------------------------------------------
(* Sequences *)

Range(s) == {s[i] : i \in 1..Len(s)}

\* a slice that starts one element late
SliceFromLate(s, i) == IF i + 1 >= Len(s) THEN <<>> ELSE SubSeq(s, i + 2, Len(s))

\* Python's s[i:] and s[:j] for 0 <= i, 0 <= j (0-based bounds)
SliceFrom(s, i) == IF i >= Len(s) THEN <<>> ELSE SubSeq(s, i + 1, Len(s))
SliceTo(s, j) == IF j >= Len(s) THEN s ELSE SubSeq(s, 1, j)

MinOf(S) == CHOOSE x \in S : \A y \in S : x <= y
MaxOf(S) == CHOOSE x \in S : \A y \in S : x >= y

SeqsUpTo(S, n) == UNION {[1..k -> S] : k \in 0..n}

RECURSIVE InsertSorted(_, _)
InsertSorted(x, s) ==
    IF s = <<>> THEN <<x>>
    ELSE IF RLeq(x, Head(s)) THEN <<x>> \o s
    ELSE <<Head(s)>> \o InsertSorted(x, Tail(s))

RECURSIVE SortR(_)
SortR(s) == IF s = <<>> THEN <<>> ELSE InsertSorted(Head(s), SortR(Tail(s)))

\* numpy.median of a non-empty sequence of rationals
Median(s) ==
    LET t == SortR(s)
        n == Len(t)
    IN  IF n % 2 = 1 THEN t[(n + 1) \div 2]
        ELSE RDiv(RAdd(t[n \div 2], t[n \div 2 + 1]), RInt(2))

-----------------------------------------------------------------------------
(* Grids the inputs are drawn from *)

MaxRows == 3                 \* longest pH / time sequence handed to the processor
PhGrid == {2, 3}             \* pH readings
TimeGrid == {-30, 0, 60}     \* acquisition times (s)
HGrid == {1, 2, 3}           \* H+ concentrations (units of K_A2)
OhGrid == {0, 1, 2}          \* OH- concentrations (units of K_A2)
CbGrid == {2, 4}             \* titrant concentrations c_b (units of K_A2)

\* 10 ** (-pH) falls strictly as pH rises, and K_W / h falls strictly as h rises
ChemTables ==
    {t \in [h : [PhGrid -> HGrid], oh : [HGrid -> OhGrid]] :
        /\ \A p1, p2 \in PhGrid : p1 < p2 => t.h[p1] > t.h[p2]
        /\ \A h1, h2 \in HGrid : h1 < h2 => t.oh[h1] > t.oh[h2]}

None == "None"

NoValue == <<>>              \* an Optional that is None
Some(x) == <<x>>             \* an Optional that holds x

VARIABLES
    chem,                 \* the table of 10 ** (-pH) and K_W / h on the grid
    pr_in,                \* arguments of the process_titration_data call
    pr_pc,                \* "call" before the call, "done" after it
    pr_raised,            \* the exception the call ended with, or None
    pr_initial_processed,    \* pass 1 rows (no model)
    pr_baseline,             \* the rows handed to estimate_c_a
    pr_c_a,                  \* the estimated C_A
    pr_final_processed,      \* pass 2 rows, before the constrained model
    pr_na_model_shifted,     \* anchored raw model sodium, per row
    pr_na_model_clamped,     \* constrained model sodium, per row
    pr_rows               \* the rows returned

procVars == <<pr_in, pr_pc, pr_raised, pr_initial_processed, pr_baseline, pr_c_a,
              pr_final_processed, pr_na_model_shifted, pr_na_model_clamped, pr_rows>>

-----------------------------------------------------------------------------
(* chem.py: conversions *)

K_A2 == 1

compute_h_from_ph(ph) == RInt(chem.h[ph])

compute_oh(h) == RInt(chem.oh[h[1]])

compute_sulfate_fraction(h, k_a2) ==
    RDiv(RAdd(h, RMul(RInt(2), k_a2)), RAdd(h, k_a2))

time_to_base_volume(time, q, time_unit) ==
    LET time_min == IF time_unit = "s" THEN RDiv(time, RInt(60)) ELSE time
    IN  RMul(q, time_min)

compute_base_moles(v_b, c_b) == RDiv(RMul(c_b, v_b), RInt(1000))

compute_normalized_base(n_b, v0) == RDiv(n_b, RDiv(v0, RInt(1000)))

compute_sodium_with_dilution(v_b, c_b, v0) == RDiv(RMul(c_b, v_b), RAdd(v0, v_b))

compute_h2so4_model(h, oh, c_a, sulfate_fraction) ==
    RSub(RAdd(RMul(c_a, sulfate_fraction), oh), h)

\* na / (1 - na / c_b); the division is undefined where na = c_b
NaToBaseDefined(na_model, c_b) == ~RIsZero(RSub(RInt(1), RDiv(na_model, c_b)))

convert_na_to_normalized_base(na_model, c_b) ==
    RDiv(na_model, RSub(RInt(1), RDiv(na_model, c_b)))

convert_normalized_base_to_na(b_meas, c_b) ==
    RDiv(b_meas, RAdd(RInt(1), RDiv(b_meas, c_b)))

-----------------------------------------------------------------------------
(* chem.py: estimate_c_a *)

MadScale == <<7413, 5000>>       \* 1.4826

\* the per-row estimates (na + h - oh) / f(h), zip()ped over the four lists
c_a_estimates(na_values, h_values, oh_values, k_a2) ==
    [j \in 1..MinOf({Len(na_values), Len(h_values), Len(oh_values)}) |->
        RDiv(RSub(RAdd(na_values[j], h_values[j]), oh_values[j]),
             compute_sulfate_fraction(h_values[j], k_a2))]

AbsDev(arr, m) == [j \in 1..Len(arr) |-> RAbs(RSub(arr[j], m))]

RECURSIVE SelectSeqR(_, _, _)
\* arr[mask]: the elements within thr of m, in order
SelectSeqR(arr, m, thr) ==
    IF arr = <<>> THEN <<>>
    ELSE (IF RLeq(RAbs(RSub(Head(arr), m)), thr) THEN <<Head(arr)>> ELSE <<>>)
         \o SelectSeqR(Tail(arr), m, thr)

\* a threshold below the MAD
InlierThresholdHalved(mad) == RDiv(mad, RInt(2))

InlierThresholdUnscaled(mad) == RMul(RInt(3), mad)

\* threshold = 3.0 * 1.4826 * mad
InlierThreshold(mad) == RMul(RMul(RInt(3), MadScale), mad)

estimate_c_a(ph_values, na_values, h_values, oh_values, k_a2) ==
    IF Len(ph_values) = 0 THEN Zero
    ELSE
      LET c_a_arr == c_a_estimates(na_values, h_values, oh_values, k_a2)
          median_val == Median(c_a_arr)
          mad == Median(AbsDev(c_a_arr, median_val))
          inliers == SelectSeqR(c_a_arr, median_val, InlierThreshold(mad))
      IN  IF RIsZero(mad) THEN median_val
          ELSE IF Len(inliers) = 0 THEN median_val
          ELSE Median(inliers)

-----------------------------------------------------------------------------
(* chem.py: process_row, compute_derivative, process_titration_data *)

\* one row; c_a = None leaves b_model and delta_b at 0.0
process_row(ph, time, c_b, q, v0, time_unit, c_a, k_a2) ==
    LET h == compute_h_from_ph(ph)
        oh == compute_oh(h)
        v_b == time_to_base_volume(RInt(time), q, time_unit)
        n_b == compute_base_moles(v_b, c_b)
        b_meas == compute_normalized_base(n_b, v0)
        na_meas == compute_sodium_with_dilution(v_b, c_b, v0)
        na_model == compute_h2so4_model(h, oh, c_a, compute_sulfate_fraction(h, k_a2))
        b_model == IF c_a = None THEN Zero
                   ELSE convert_na_to_normalized_base(na_model, c_b)
        delta_b == IF c_a = None THEN Zero ELSE RSub(b_meas, b_model)
    IN  [time |-> time, pH |-> ph, v_b |-> v_b, n_b |-> n_b, b_meas |-> b_meas,
         na |-> na_meas, h |-> h, oh |-> oh, b_model |-> b_model,
         delta_b |-> delta_b]

\* whether pass 2 of process_row divides by zero for this sample
process_row_raises(ph, c_b, c_a, k_a2) ==
    LET h == compute_h_from_ph(ph)
        na_model == compute_h2so4_model(h, compute_oh(h), c_a,
                                        compute_sulfate_fraction(h, k_a2))
    IN  ~NaToBaseDefined(na_model, c_b)

\* dy/dx with one-sided differences only
compute_derivative_one_sided(x, y) ==
    IF Len(x) <= 1 THEN [i \in 1..Len(x) |-> Zero]
    ELSE [i \in 1..Len(x) |->
            LET lo == IF i = 1 THEN 1 ELSE i - 1
                hi == IF i = 1 THEN 2 ELSE i
                dx == RSub(x[hi], x[lo])
                dy == RSub(y[hi], y[lo])
            IN  IF ~RIsZero(dx) THEN RDiv(dy, dx) ELSE Zero]

\* dy/dx: forward, backward and central differences; 0.0 where dx = 0
compute_derivative(x, y) ==
    IF Len(x) <= 1 THEN [i \in 1..Len(x) |-> Zero]
    ELSE [i \in 1..Len(x) |->
            LET lo == IF i = 1 THEN 1 ELSE i - 1
                hi == IF i = Len(x) THEN Len(x) ELSE i + 1
                dx == RSub(x[hi], x[lo])
                dy == RSub(y[hi], y[lo])
            IN  IF ~RIsZero(dx) THEN RDiv(dy, dx) ELSE Zero]

ClampFactor == <<999, 1000>>     \* 0.999

\* the clamp without the running maximum
RECURSIVE ClampOnly(_, _, _)
ClampOnly(shifted, prev_val, upper_bound) ==
    IF shifted = <<>> THEN <<>>
    ELSE <<RMax(Zero, RMin(upper_bound, Head(shifted)))>>
         \o ClampOnly(Tail(shifted), prev_val, upper_bound)

RECURSIVE ClampMonotone(_, _, _)
\* step 3 of the constrained model: clamp to [0, upper_bound], then running maximum
ClampMonotone(shifted, prev_val, upper_bound) ==
    IF shifted = <<>> THEN <<>>
    ELSE LET clamped == RMax(Zero, RMin(upper_bound, Head(shifted)))
             na_m == RMax(prev_val, clamped)
         IN  <<na_m>> \o ClampMonotone(Tail(shifted), na_m, upper_bound)

\* zip(a, b): as many pairs as the shorter sequence has elements
ZipLen(a, b) == IF Len(a) <= Len(b) THEN Len(a) ELSE Len(b)

\* the default without its minimum of 3
DefaultBaselineEndFifth(n) == n \div 5

\* baseline_end_index when the caller gives none: max(3, int(len * 0.2))
DefaultBaselineEnd(n) == IF (n \div 5) > 3 THEN n \div 5 ELSE 3

\* one pass of process_row over zip(ph_values[start_index:], time_values[start_index:])
ProcessRows(ph_values0, time_values0, c_b, q, v0, time_unit, start_index, c_a_arg) ==
    LET ph_values == SliceFrom(ph_values0, start_index)
        time_values == SliceFrom(time_values0, start_index)
    IN  [i \in 1..ZipLen(ph_values, time_values) |->
            process_row(ph_values[i], time_values[i], c_b, q, v0, time_unit,
                        c_a_arg, RInt(K_A2))]

\* initial_processed[:baseline_end_index], baseline_end_index an Optional
BaselineWindow(rows, baseline_end_index) ==
    SliceTo(rows, IF baseline_end_index = NoValue THEN DefaultBaselineEnd(Len(rows))
                  ELSE baseline_end_index[1])

\* steps 1 and 2 of the constrained model: raw model sodium with dilution,
\* anchored to the measured sodium of the first row
NaModelRaw(rows, c_a_arg, v0) ==
    [i \in 1..Len(rows) |->
        LET c_a_mix == RMul(c_a_arg, RDiv(v0, RAdd(v0, rows[i].v_b)))
            f_h == compute_sulfate_fraction(rows[i].h, RInt(K_A2))
        IN  compute_h2so4_model(rows[i].h, rows[i].oh, c_a_mix, f_h)]

\* the raw model left where it is
NaModelUnanchored(rows, raw) == raw

NaModelShifted(rows, raw) ==
    IF Len(rows) = 0 THEN <<>>
    ELSE LET na_offset == RSub(raw[1], rows[1].na)
         IN  [i \in 1..Len(rows) |-> RSub(raw[i], na_offset)]

\* step 4 and the derivative: b_model, delta_b and d_delta_b_d_ph of every row
FinishRows(rows, clamped, c_b) ==
    LET b_models == [i \in 1..Len(rows) |->
                        convert_na_to_normalized_base(clamped[i], c_b)]
        delta_b_values == [i \in 1..Len(rows) |-> RSub(rows[i].b_meas, b_models[i])]
        derivatives == compute_derivative([i \in 1..Len(rows) |-> RInt(rows[i].pH)],
                                          delta_b_values)
    IN  [i \in 1..Len(rows) |->
            [time |-> rows[i].time, pH |-> rows[i].pH, v_b |-> rows[i].v_b,
             n_b |-> rows[i].n_b, b_meas |-> rows[i].b_meas, na |-> rows[i].na,
             h |-> rows[i].h, oh |-> rows[i].oh, b_model |-> b_models[i],
             delta_b |-> delta_b_values[i], d_delta_b_d_ph |-> derivatives[i]]]

-----------------------------------------------------------------------------
(* The processor run: one call of process_titration_data *)

StartGrid == 0..MaxRows
Q == RInt(1)
V0Grid == {1}

ProcInputs ==
    [ph_values : SeqsUpTo(PhGrid, MaxRows), time_values : SeqsUpTo(TimeGrid, MaxRows),
     c_b : CbGrid, v0 : V0Grid, start_index : StartGrid]

ProcStart ==
    /\ pr_in \in ProcInputs
    /\ pr_pc = "call"
    /\ pr_raised = None
    /\ pr_initial_processed = <<>>
    /\ pr_baseline = <<>>
    /\ pr_c_a = Zero
    /\ pr_final_processed = <<>>
    /\ pr_na_model_shifted = <<>>
    /\ pr_na_model_clamped = <<>>
    /\ pr_rows = <<>>

\* no processor call in flight
ProcIdle ==
    /\ pr_in = [ph_values |-> <<>>, time_values |-> <<>>, c_b |-> 2, v0 |-> 1,
                start_index |-> 0]
    /\ pr_pc = "idle"
    /\ pr_raised = None
    /\ pr_initial_processed = <<>>
    /\ pr_baseline = <<>>
    /\ pr_c_a = Zero
    /\ pr_final_processed = <<>>
    /\ pr_na_model_shifted = <<>>
    /\ pr_na_model_clamped = <<>>
    /\ pr_rows = <<>>

\* process_titration_data(ph_values, time_values, c_b, q, v0, "s", start_index):
\* the whole call, its intermediate lists kept in the state
process_titration_data ==
    LET c_b == RInt(pr_in.c_b)
        v0 == RInt(pr_in.v0)
    IN
    /\ pr_pc = "call"
    /\ pr_initial_processed' = ProcessRows(pr_in.ph_values, pr_in.time_values, c_b, Q, v0,
                                        "s", pr_in.start_index, None)
    /\ pr_baseline' = BaselineWindow(pr_initial_processed', NoValue)
    /\ pr_c_a' = estimate_c_a([j \in 1..Len(pr_baseline') |-> pr_baseline'[j].pH],
                           [j \in 1..Len(pr_baseline') |-> pr_baseline'[j].na],
                           [j \in 1..Len(pr_baseline') |-> pr_baseline'[j].h],
                           [j \in 1..Len(pr_baseline') |-> pr_baseline'[j].oh], RInt(K_A2))
    /\ IF \E i \in 1..Len(pr_initial_processed') :
             process_row_raises(pr_initial_processed'[i].pH, c_b, pr_c_a', RInt(K_A2))
       THEN /\ pr_raised' = "ZeroDivisionError"
            /\ pr_final_processed' = <<>>
            /\ pr_na_model_shifted' = <<>>
            /\ pr_na_model_clamped' = <<>>
            /\ pr_rows' = <<>>
       ELSE /\ pr_raised' = None
            /\ pr_final_processed' = ProcessRows(pr_in.ph_values, pr_in.time_values, c_b, Q,
                                              v0, "s", pr_in.start_index, pr_c_a')
            /\ pr_na_model_shifted' =
                   NaModelShifted(pr_final_processed',
                                  NaModelRaw(pr_final_processed', pr_c_a', v0))
            /\ pr_na_model_clamped' =
                   ClampMonotone(pr_na_model_shifted', Zero, RMul(ClampFactor, c_b))
            /\ pr_rows' = FinishRows(pr_final_processed', pr_na_model_clamped', c_b)
    /\ pr_pc' = "done"
    /\ UNCHANGED pr_in

-----------------------------------------------------------------------------
(* The baseline window of process_titration_data on longer inputs: only the
   positions of the rows matter to the choice, so a row is its 0-based
   position in the caller's lists *)

MaxWindowRows == 21          \* most rows in a call of this run
WindowStartGrid == {0, 1}
WindowEndGrid == {NoValue} \cup {Some(e) : e \in 0..(MaxWindowRows + 1)}

VARIABLES
    bw_in,                \* n rows given, start_index, baseline_end_index
    bw_pc,                \* "call" before the window is taken, "done" after
    bw_rows,              \* initial_processed, as positions
    bw_window             \* the rows handed to estimate_c_a, as positions

windowVars == <<bw_in, bw_pc, bw_rows, bw_window>>

WindowInputs ==
    [n : 0..MaxWindowRows, start_index : WindowStartGrid, baseline_end_index : WindowEndGrid]

WindowIdle ==
    /\ bw_in = [n |-> 0, start_index |-> 0, baseline_end_index |-> NoValue]
    /\ bw_pc = "idle"
    /\ bw_rows = <<>>
    /\ bw_window = <<>>

WindowStart ==
    /\ bw_in \in WindowInputs
    /\ bw_pc = "call"
    /\ bw_rows = <<>>
    /\ bw_window = <<>>

\* process_titration_data up to the call of estimate_c_a: the slice at
\* start_index, one row per remaining pair, the baseline slice
baseline_window ==
    /\ bw_pc = "call"
    /\ bw_rows' = SliceFrom([i \in 1..bw_in.n |-> i - 1], bw_in.start_index)
    /\ bw_window' = BaselineWindow(bw_rows', bw_in.baseline_end_index)
    /\ bw_pc' = "done"
    /\ UNCHANGED bw_in

-----------------------------------------------------------------------------
(* main.py: POST /api/compute, POST /api/export and POST /api/assign_peaks *)

MaxApiRows == 2              \* most rows in a compute request
MaxRequests == 1             \* compute requests served in one behaviour
MaxSessionRequests == 2      \* requests served in one behaviour of a session
MaxAssignments == 1          \* most assignments in an assign_peaks request

VARIABLES
    api_request,          \* the ComputeSettings of the last request, or NoValue
    api_response,         \* the answer to it, or NoValue
    last_settings,        \* app.state.last_settings
    last_processed,       \* app.state.last_processed
    last_c_a,             \* app.state.last_c_a
    last_model,           \* app.state.last_model
    last_peaks,           \* app.state.last_peaks
    api_served,           \* requests answered so far
    api_last,             \* the endpoint of the last request: "none", "compute",
                          \* "export", "assign"
    exp_request,          \* the ExportRequest of the last export request, or NoValue
    exp_response,         \* the answer to it, or NoValue
    asg_request,          \* the AssignPeaksRequest of the last assign_peaks request
    asg_response          \* the answer to it, or NoValue

apiVars == <<api_request, api_response, last_settings, last_processed, last_c_a,
             last_model, last_peaks, api_served, api_last, exp_request, exp_response,
             asg_request, asg_response>>

\* app.state.last_*
lastState == <<last_settings, last_processed, last_c_a, last_model, last_peaks>>

\* a cell of a request row under the mapped key: a number, a string, or no
\* such key in the row
NumCells(grid) == [kind : {"num"}, v : grid]
StrCell == [kind |-> "str", v |-> 0]
AbsentCell == [kind |-> "absent", v |-> 0]

ApiRows == [ph : NumCells(PhGrid) \cup {StrCell, AbsentCell},
            time : NumCells(TimeGrid) \cup {StrCell, AbsentCell}]

ComputeRequests ==
    [rows : SeqsUpTo(ApiRows, MaxApiRows), c_b : CbGrid, v0 : V0Grid, start_index : {0, 1},
     c_a_known : {NoValue} \cup {Some(c) : c \in {1, 2}},
     ph_ignore_below : {NoValue} \cup {Some(p) : p \in {2}}]

\* the parameters process_titration_data declares
ProcessorParams ==
    {"ph_values", "time_values", "c_b", "q", "v0", "time_unit", "start_index",
     "baseline_end_index"}

\* the keywords compute_data calls it with
ComputeCallKeywords ==
    {"ph_values", "time_values", "c_b", "q", "v0", "time_unit", "start_index",
     "c_a_override", "ph_ignore_below"}

\* a keyword call binds when every keyword names a parameter; otherwise
\* Python raises TypeError before the body runs
CallBinds(keywords, params) == keywords \subseteq params

\* the check of one row in the extraction loop: the HTTPException it raises
RowError(row) ==
    IF row.ph.kind = "absent" \/ row.time.kind = "absent"
    THEN "400: Missing required columns in data. Check column mapping."
    ELSE IF row.ph.kind # "num" \/ row.time.kind # "num"
    THEN "400: Non-numeric values found in pH or time columns."
    ELSE ""

\* the first row the loop stops at, 0 when every row passes
FirstBadRow(rows) ==
    IF \E i \in 1..Len(rows) : RowError(rows[i]) # ""
    THEN MinOf({i \in 1..Len(rows) : RowError(rows[i]) # ""})
    ELSE 0

ApiStart ==
    /\ api_request = NoValue
    /\ api_response = NoValue
    /\ last_settings = NoValue
    /\ last_processed = NoValue
    /\ last_c_a = NoValue
    /\ last_model = NoValue
    /\ last_peaks = NoValue
    /\ api_served = 0
    /\ api_last = "none"
    /\ exp_request = NoValue
    /\ exp_response = NoValue
    /\ asg_request = NoValue
    /\ asg_response = NoValue

\* compute_data(settings): everything the handler raises inside its try block,
\* the HTTPException(400) of the row checks included, is caught by
\* "except Exception" and answered with status 500; a stored result is held
\* by the number of its rows, its peaks by the metal assigned to each ("" for
\* none)

\* a failed request that has stored its settings all the same
FailedComputeHalfStored ==
    /\ last_settings' = api_request'
    /\ UNCHANGED <<last_processed, last_c_a, last_model, last_peaks>>

\* the except clause is reached before any assignment to app.state
FailedCompute == UNCHANGED lastState

ComputeHandler(settings) ==
    LET bad == FirstBadRow(settings.rows)
        ph_values == [i \in 1..Len(settings.rows) |-> settings.rows[i].ph.v]
        time_values == [i \in 1..Len(settings.rows) |-> settings.rows[i].time.v]
        initial == ProcessRows(ph_values, time_values, RInt(settings.c_b), Q,
                               RInt(settings.v0), "s", settings.start_index, None)
        baseline == BaselineWindow(initial, NoValue)
        c_a == estimate_c_a([j \in 1..Len(baseline) |-> baseline[j].pH],
                            [j \in 1..Len(baseline) |-> baseline[j].na],
                            [j \in 1..Len(baseline) |-> baseline[j].h],
                            [j \in 1..Len(baseline) |-> baseline[j].oh], RInt(K_A2))
    IN
    /\ api_served' = api_served + 1
    /\ api_last' = "compute"
    /\ api_request' = Some(settings)
    /\ IF bad # 0
       THEN /\ api_response' = Some([status |-> 500,
                                     detail |-> RowError(settings.rows[bad]),
                                     c_a |-> NoValue])
            /\ FailedCompute
       ELSE IF ~CallBinds(ComputeCallKeywords, ProcessorParams)
       THEN /\ api_response' = Some([status |-> 500, detail |-> "TypeError",
                                     c_a |-> NoValue])
            /\ FailedCompute
       ELSE /\ api_response' = Some([status |-> 200, detail |-> "", c_a |-> Some(c_a)])
            /\ last_settings' = Some(settings)
            /\ last_processed' = Some(Len(initial))
            /\ last_c_a' = Some(c_a)
            /\ last_model' = Some(Len(initial))
            /\ \E peaks \in 0..Len(initial) : last_peaks' = Some([i \in 1..peaks |-> ""])
    /\ UNCHANGED <<exp_request, exp_response, asg_request, asg_response>>

\* a compute request of the server that only computes
compute_data ==
    \E settings \in ComputeRequests :
        api_served < MaxRequests /\ ComputeHandler(settings)

\* the compute requests of a session: numeric rows one minute apart, as the
\* export tests post them, or one row with a text cell
SessionRowCounts == {0, 1, 2, 5}

NumericRows(n) ==
    [i \in 1..n |-> [ph |-> [kind |-> "num", v |-> IF i <= 2 THEN 2 ELSE 3],
                     time |-> [kind |-> "num", v |-> 60 * (i - 1)]]]

SessionRows ==
    {NumericRows(n) : n \in SessionRowCounts}
        \cup {<<[ph |-> StrCell, time |-> [kind |-> "num", v |-> 0]]>>}

SessionRequests ==
    [rows : SessionRows, c_b : {2}, v0 : V0Grid, start_index : {0},
     c_a_known : {NoValue, Some(1)}, ph_ignore_below : {NoValue}]

session_compute ==
    \E settings \in SessionRequests :
        api_served < MaxSessionRequests /\ ComputeHandler(settings)

ExportFormats == {"csv", "json"}
DataTypes == {"processed", "peaks", "session"}
ExportRequests == [format : ExportFormats, data_type : DataTypes]

\* the answer without the test for a stored result
ExportAnswerUnchecked(request, stored) ==
    IF request.data_type = "session" /\ request.format # "json"
    THEN [status |-> 400, detail |-> "Session export only supported in JSON format.",
          filename |-> ""]
    ELSE [status |-> 200, detail |-> "",
          filename |-> "titration_" \o request.data_type \o "." \o request.format]

\* the answer of export_data to a request, given whether a result is stored
ExportAnswer(request, stored) ==
    IF ~stored
    THEN [status |-> 400, detail |-> "No computation data available to export.",
          filename |-> ""]
    ELSE IF request.data_type = "session" /\ request.format # "json"
    THEN [status |-> 400, detail |-> "Session export only supported in JSON format.",
          filename |-> ""]
    ELSE [status |-> 200, detail |-> "",
          filename |-> "titration_" \o request.data_type \o "." \o request.format]

\* export_data(request)
export_data ==
    \E request \in ExportRequests :
        /\ api_served < MaxSessionRequests
        /\ api_served' = api_served + 1
        /\ api_last' = "export"
        /\ exp_request' = Some(request)
        /\ exp_response' = Some(ExportAnswer(request, last_processed # NoValue))
        /\ UNCHANGED <<api_request, api_response, lastState, asg_request, asg_response>>

Metals == {"Fe3+", "Al3+"}
PeakIds == {1, 2}
AssignRequests == SeqsUpTo([peak_id : PeakIds, metal : Metals], MaxAssignments)

\* assignment_map = {a.peak_id: a.metal for a in request.assignments}: the
\* last assignment of a peak id counts
AssignedMetal(assignments, peak_id) ==
    LET at == {k \in 1..Len(assignments) : assignments[k].peak_id = peak_id}
    IN  IF at = {} THEN "" ELSE assignments[MaxOf(at)].metal

\* assign_peaks(request)
assign_peaks ==
    \E request \in AssignRequests :
        /\ api_served < MaxSessionRequests
        /\ api_served' = api_served + 1
        /\ api_last' = "assign"
        /\ asg_request' = Some(request)
        /\ IF last_peaks = NoValue
           THEN /\ asg_response' =
                      Some([status |-> 400,
                            detail |-> "No peaks available. Run /api/compute first."])
                /\ UNCHANGED last_peaks
           ELSE /\ asg_response' = Some([status |-> 200, detail |-> ""])
                /\ last_peaks' =
                      Some([i \in 1..Len(last_peaks[1]) |->
                               IF AssignedMetal(request, i) # ""
                               THEN AssignedMetal(request, i) ELSE last_peaks[1][i]])
        /\ UNCHANGED <<api_request, api_response, exp_request, exp_response,
                       last_settings, last_processed, last_c_a, last_model>>

-----------------------------------------------------------------------------
(* chem.py: build_model_curve *)

MaxPoints == 3               \* largest num_points of a model curve
MaxIterations == 8           \* max_iterations
TargetPh == 7                \* target_ph
CaGrid == {1, 2}             \* estimated C_A (units of K_A2)

\* solve_h either raises ValueError (root not bracketed) or returns h; h is
\* held by its decimal exponent, h = 10 ** (-e), so that -log10(h) = e
HExponents == {6, 7, 8}
SolveOutcomes == [raised : {TRUE}, e : {0}] \cup [raised : {FALSE}, e : HExponents]
NegLog10(e) == e

VARIABLES
    cv_in,                \* arguments of the build_model_curve call
    cv_pc,                \* "idle", "grid" (inside the loops) or "done"
    cv_iteration,         \* the outer loop's counter
    cv_b_max,             \* the current upper dose
    cv_idx,               \* grid points of this attempt already visited
    cv_ph_list,           \* ph_list
    cv_b_list,            \* b_list
    cv_failed,            \* grid indices of this attempt where solve_h raised
    cv_raised             \* the exception that left build_model_curve, or None

curveVars == <<cv_in, cv_pc, cv_iteration, cv_b_max, cv_idx, cv_ph_list, cv_b_list,
               cv_failed, cv_raised>>

\* np.linspace(0.0, b_max, num_points)[i], i counted from 0
linspace(b_max, num_points, i) ==
    IF num_points = 1 THEN Zero ELSE RDiv(RMul(b_max, RInt(i)), RInt(num_points - 1))

CurveInputs == [c_a : CaGrid, c_b : CbGrid, num_points : 0..MaxPoints]

CurveIdle ==
    /\ cv_in = [c_a |-> 1, c_b |-> 2, num_points |-> 0]
    /\ cv_pc = "idle"
    /\ cv_iteration = 0
    /\ cv_b_max = Zero
    /\ cv_idx = 0
    /\ cv_ph_list = <<>>
    /\ cv_b_list = <<>>
    /\ cv_failed = {}
    /\ cv_raised = None

\* entry of build_model_curve(c_a, c_b, num_points), before the first attempt
CurveStart ==
    /\ cv_in \in CurveInputs
    /\ cv_pc = "grid"
    /\ cv_iteration = 0
    /\ cv_b_max = RMul(R(5, 2), RInt(cv_in.c_a))
    /\ cv_idx = 0
    /\ cv_ph_list = <<>>
    /\ cv_b_list = <<>>
    /\ cv_failed = {}
    /\ cv_raised = None

\* the except clause of the inner loop: ValueError only drops the grid point
curve_point_propagates ==
    /\ cv_pc = "grid"
    /\ cv_idx < cv_in.num_points
    /\ \E outcome \in SolveOutcomes :
          IF outcome.raised
          THEN /\ cv_raised' = "ValueError"
               /\ cv_pc' = "done"
               /\ cv_failed' = cv_failed \cup {cv_idx}
               /\ UNCHANGED <<cv_ph_list, cv_b_list, cv_idx>>
          ELSE /\ cv_ph_list' = Append(cv_ph_list, NegLog10(outcome.e))
               /\ cv_b_list' = Append(cv_b_list, linspace(cv_b_max, cv_in.num_points, cv_idx))
               /\ cv_idx' = cv_idx + 1
               /\ UNCHANGED <<cv_failed, cv_raised, cv_pc>>
    /\ UNCHANGED <<cv_in, cv_iteration, cv_b_max>>

\* one pass of "for b in b_grid": solve for H+ at dose b and record
\* (pH, b), or skip the dose when solve_h raises ValueError
curve_point ==
    /\ cv_pc = "grid"
    /\ cv_idx < cv_in.num_points
    /\ \E outcome \in SolveOutcomes :
          IF outcome.raised
          THEN /\ cv_failed' = cv_failed \cup {cv_idx}
               /\ UNCHANGED <<cv_ph_list, cv_b_list>>
          ELSE /\ cv_ph_list' = Append(cv_ph_list, NegLog10(outcome.e))
               /\ cv_b_list' = Append(cv_b_list, linspace(cv_b_max, cv_in.num_points, cv_idx))
               /\ UNCHANGED cv_failed
    /\ cv_idx' = cv_idx + 1
    /\ UNCHANGED <<cv_in, cv_pc, cv_iteration, cv_b_max, cv_raised>>

\* the end of an attempt without the clearing of the lists before a retry
curve_attempt_end_keeps ==
    /\ cv_pc = "grid"
    /\ cv_idx = cv_in.num_points
    /\ IF cv_ph_list = <<>> \/ cv_ph_list[Len(cv_ph_list)] < TargetPh
       THEN /\ cv_b_max' = RMul(cv_b_max, RInt(2))
            /\ IF cv_iteration + 1 < MaxIterations
               THEN /\ cv_iteration' = cv_iteration + 1
                    /\ cv_idx' = 0
                    /\ UNCHANGED <<cv_ph_list, cv_b_list, cv_failed, cv_pc>>
               ELSE /\ cv_pc' = "done"
                    /\ UNCHANGED <<cv_iteration, cv_idx, cv_ph_list, cv_b_list, cv_failed>>
       ELSE /\ cv_pc' = "done"
            /\ UNCHANGED <<cv_b_max, cv_iteration, cv_idx, cv_ph_list, cv_b_list, cv_failed>>
    /\ UNCHANGED <<cv_in, cv_raised>>

\* after the grid: stop when the last pH reached the target, otherwise double
\* b_max and start the next attempt with empty lists; the lists of the last
\* attempt are returned as they are
curve_attempt_end ==
    /\ cv_pc = "grid"
    /\ cv_idx = cv_in.num_points
    /\ IF cv_ph_list = <<>> \/ cv_ph_list[Len(cv_ph_list)] < TargetPh
       THEN /\ cv_b_max' = RMul(cv_b_max, RInt(2))
            /\ IF cv_iteration + 1 < MaxIterations
               THEN /\ cv_iteration' = cv_iteration + 1
                    /\ cv_idx' = 0
                    /\ cv_ph_list' = <<>>
                    /\ cv_b_list' = <<>>
                    /\ cv_failed' = {}
                    /\ UNCHANGED cv_pc
               ELSE /\ cv_pc' = "done"
                    /\ UNCHANGED <<cv_iteration, cv_idx, cv_ph_list, cv_b_list, cv_failed>>
       ELSE /\ cv_pc' = "done"
            /\ UNCHANGED <<cv_b_max, cv_iteration, cv_idx, cv_ph_list, cv_b_list, cv_failed>>
    /\ UNCHANGED <<cv_in, cv_raised>>

-----------------------------------------------------------------------------
(* chem.py: one call of estimate_c_a on a baseline window *)

MaxBaseline == 3             \* most rows of a baseline window
NaGrid == {0, 1, 5, 50}      \* measured sodium of a baseline row (units of K_A2)
EstHGrid == {1, 2}           \* H+ of a baseline row (units of K_A2)
EstOhGrid == {0}             \* OH- of a baseline row (units of K_A2)

VARIABLES
    est_in,               \* the baseline rows: pH, na, h, oh per row
    est_pc,               \* "idle", "call" or "done"
    est_result,           \* the value returned
    est_raised            \* the exception the call ended with, or None

estVars == <<est_in, est_pc, est_result, est_raised>>

BaselineRows == [pH : {2}, na : NaGrid, h : EstHGrid, oh : EstOhGrid]

EstIdle ==
    /\ est_in = <<>>
    /\ est_pc = "idle"
    /\ est_result = Zero
    /\ est_raised = None

EstStart ==
    /\ est_in \in SeqsUpTo(BaselineRows, MaxBaseline)
    /\ est_pc = "call"
    /\ est_result = Zero
    /\ est_raised = None

\* estimate_c_a(baseline_ph, baseline_na, baseline_h, baseline_oh)
estimate_c_a_call ==
    /\ est_pc = "call"
    /\ est_result' = estimate_c_a([j \in 1..Len(est_in) |-> est_in[j].pH],
                                  [j \in 1..Len(est_in) |-> RInt(est_in[j].na)],
                                  [j \in 1..Len(est_in) |-> RInt(est_in[j].h)],
                                  [j \in 1..Len(est_in) |-> RInt(est_in[j].oh)],
                                  RInt(K_A2))
    /\ est_raised' = None
    /\ est_pc' = "done"
    /\ UNCHANGED est_in

-----------------------------------------------------------------------------
(* peaks.py: smoothing, derivative, thresholds *)

\* In the peak detector pH is counted in units of 0.1 pH and excess base in
\* units of 1e-5 mol/L, so that every threshold of the code is a ratio of
\* small integers.
Prominence == RInt(10)           \* prominence = 0.001 mol/L per pH
StepFloor == RInt(10)            \* 1e-4 mol/L
MergeFloor == R(3, 2)            \* 0.15 pH
GapFloor == R(1, 2)              \* 0.05 pH
DefaultSpacing == R(1, 2)        \* 0.05 pH

RECURSIVE LinComb(_, _, _)
\* sum of c[k] * y[off + k] over the coefficients c
LinComb(c, y, off) ==
    IF c = <<>> THEN Zero
    ELSE RAdd(RMul(RInt(Head(c)), y[off + 1]), LinComb(Tail(c), y, off + 1))

\* the window smooth_data hands to savgol_filter for fewer than 19 samples
FallbackWindow(n) == IF n - 2 < 5 THEN n - 2 ELSE 5

\* savgol_filter with an even window: a ValueError in builds of SciPy that
\* demand an odd window, a half-sample filter in the others
EvenWindow(n) == n > 3 /\ FallbackWindow(n) % 2 = 0

\* smooth_data(y, 19, 3) for fewer than 19 samples: no smoothing up to 3
\* samples; savgol_filter(y, min(n - 2, 5), min(3, window - 1)) above, whose
\* first and last window // 2 values come from the polynomial fitted to the
\* first and last window
smooth_data(y) ==
    LET n == Len(y)
        w == FallbackWindow(n)
    IN  IF n <= 3 \/ w = 3 THEN y
        ELSE IF w = 2
        THEN [i \in 1..n |->
                IF i = 1 \/ i = n THEN y[i]
                ELSE RDiv(RAdd(y[i], y[i + 1]), RInt(2))]
        ELSE IF w = 4
        THEN [i \in 1..n |->
                IF i <= 2 \/ i >= n - 1 THEN y[i]
                ELSE RDiv(LinComb(<<-1, 9, 9, -1>>, y, i - 2), RInt(16))]
        ELSE [i \in 1..n |->
                IF i = 1 THEN RDiv(LinComb(<<69, 4, -6, 4, -1>>, y, 0), RInt(70))
                ELSE IF i = 2 THEN RDiv(LinComb(<<2, 27, 12, -8, 2>>, y, 0), RInt(35))
                ELSE IF i = n - 1
                THEN RDiv(LinComb(<<2, -8, 12, 27, 2>>, y, n - 5), RInt(35))
                ELSE IF i = n THEN RDiv(LinComb(<<-1, 4, -6, 4, 69>>, y, n - 5), RInt(70))
                ELSE RDiv(LinComb(<<-3, 12, 17, 12, -3>>, y, i - 3), RInt(35))]

\* np.gradient(y, x, edge_order=2) at index i of n >= 3 samples with uneven
\* spacing: second-order differences inside and at both ends
np_gradient(y, x, i) ==
    LET n == Len(x)
        j == IF i = 1 THEN 2 ELSE IF i = n THEN n - 1 ELSE i
        dx1 == x[j] - x[j - 1]
        dx2 == x[j + 1] - x[j]
        den == RInt(dx1 * dx2 * (dx1 + dx2))
        a == IF i = 1 THEN -(2 * dx1 + dx2) * dx2
             ELSE IF i = n THEN dx2 * dx2
             ELSE -dx2 * dx2
        b == IF i = 1 THEN (dx1 + dx2) * (dx1 + dx2)
             ELSE IF i = n THEN -(dx1 + dx2) * (dx1 + dx2)
             ELSE dx2 * dx2 - dx1 * dx1
        c == IF i = 1 THEN -dx1 * dx1
             ELSE IF i = n THEN (2 * dx2 + dx1) * dx1
             ELSE dx1 * dx1
    IN  RDiv(RAdd(RAdd(RMul(RInt(a), y[j - 1]), RMul(RInt(b), y[j])),
                  RMul(RInt(c), y[j + 1])), den)

\* np.gradient needs edge_order + 1 = 3 samples and raises ValueError on 2
GradientRaises(n) == n = 2

\* compute_derivative(x, y) of peaks.py: zeros up to one sample
peaks_compute_derivative(x, y) ==
    IF Len(x) <= 1 THEN [i \in 1..Len(x) |-> Zero]
    ELSE [i \in 1..Len(x) |-> np_gradient(y, x, i)]

Diff(v) == [i \in 1..(Len(v) - 1) |-> RSub(v[i + 1], v[i])]

\* sigma = 1.4826 * MAD of the derivative
Sigma(derivative) ==
    RMul(MadScale, Median(AbsDev(derivative, Median(derivative))))

\* min_prominence = max(prominence or 0, 6 * sigma); np.median of no value is
\* nan, and max() keeps its first argument against nan
MinProminence(derivative) ==
    IF derivative = <<>> THEN Prominence
    ELSE RMax(Prominence, RMul(RInt(6), Sigma(derivative)))

\* step_min = max(5 * step_sigma, 1e-4)
StepMin(smoothed) ==
    LET step_sigma == IF Len(smoothed) > 2
                      THEN RMul(MadScale, Median(AbsDev(Diff(smoothed), Zero)))
                      ELSE Zero
    IN  RMax(RMul(RInt(5), step_sigma), StepFloor)

-----------------------------------------------------------------------------
(* peaks.py: zero crossings, segments, events, merging, quantification *)

RECURSIVE FilledSigns(_, _)
\* np.sign of the first i values, each zero after the first replaced by the
\* sign before it
FilledSigns(y, i) ==
    IF i = 0 THEN <<>>
    ELSE LET before == FilledSigns(y, i - 1)
         IN  Append(before, IF RSign(y[i]) = 0 /\ i > 1 THEN before[i - 1] ELSE RSign(y[i]))

\* find_zero_crossings(x, y): the 0-based indices where y is exactly zero or
\* where the filled sign differs from the next one
find_zero_crossings(y) ==
    LET signs == FilledSigns(y, Len(y))
    IN  {i - 1 : i \in {k \in 1..Len(y) : RIsZero(y[k])}}
            \cup {i - 1 : i \in {k \in 1..(Len(y) - 1) : signs[k + 1] # signs[k]}}

RECURSIVE SortInts(_)
\* a set of integers as an ascending list
SortInts(S) == IF S = {} THEN <<>> ELSE <<MinOf(S)>> \o SortInts(S \ {MinOf(S)})

\* the crossings list after the start and end points were added: 0 goes to
\* the front, len - 1 to the back (behind 0 when there is no sample)
CrossingList(y) ==
    LET n == Len(y)
        zc == SortInts(find_zero_crossings(y))
        front == IF 0 \in Range(zc) THEN zc ELSE <<0>> \o zc
    IN  IF (n - 1) \in Range(front) THEN front ELSE Append(front, n - 1)

\* np.argmax(np.abs(derivative[start:end])) + start: the first 0-based index
\* of the largest absolute value
ArgMaxAbs(derivative, start_idx, end_idx) ==
    MinOf({i \in start_idx..(end_idx - 1) :
              \A k \in start_idx..(end_idx - 1) :
                  RLeq(RAbs(derivative[k + 1]), RAbs(derivative[i + 1]))})

Segment(derivative, ph, start_idx, end_idx) ==
    LET max_abs_idx == ArgMaxAbs(derivative, start_idx, end_idx)
    IN  [start_idx |-> start_idx, end_idx |-> end_idx, max_abs_idx |-> max_abs_idx,
         max_abs_value |-> RAbs(derivative[max_abs_idx + 1]),
         sign |-> RSign(derivative[max_abs_idx + 1]),
         ph_start |-> ph[start_idx + 1], ph_end |-> ph[end_idx + 1],
         ph_apex |-> ph[max_abs_idx + 1]]

RECURSIVE Segments(_, _, _, _)
\* the segments between consecutive crossings more than one index apart
Segments(zc, derivative, ph, i) ==
    IF i >= Len(zc) THEN <<>>
    ELSE (IF zc[i + 1] - zc[i] > 1
          THEN <<Segment(derivative, ph, zc[i], zc[i + 1])>> ELSE <<>>)
         \o Segments(zc, derivative, ph, i + 1)

EventOf(seg) ==
    [start_idx |-> seg.start_idx, end_idx |-> seg.end_idx, max_abs_idx |-> seg.max_abs_idx,
     max_abs_value |-> seg.max_abs_value, ph_start |-> seg.ph_start,
     ph_end |-> seg.ph_end, ph_apex |-> seg.ph_apex]

\* the next segment joins whatever its sign
JoinsAnySign(cur, nxt, min_prominence) ==
    RLeq(RDiv(min_prominence, RInt(2)), nxt.max_abs_value)

\* the next segment joins the event: opposite sign and at least half the
\* minimum prominence
Joins(cur, nxt, min_prominence) ==
    /\ cur.sign * nxt.sign < 0
    /\ RLeq(RDiv(min_prominence, RInt(2)), nxt.max_abs_value)

Extended(event, cur, nxt) ==
    LET longer == [event EXCEPT !.end_idx = nxt.end_idx, !.ph_end = nxt.ph_end]
    IN  IF RLess(cur.max_abs_value, nxt.max_abs_value)
        THEN [longer EXCEPT !.max_abs_idx = nxt.max_abs_idx,
                            !.max_abs_value = nxt.max_abs_value,
                            !.ph_apex = nxt.ph_apex]
        ELSE longer

\* the cutoff test of an event: with a cutoff, an apex above it drops the event
AboveCutoffIgnored(event, ph_cutoff) == FALSE

AboveCutoff(event, ph_cutoff) == ph_cutoff # NoValue /\ event.ph_apex > ph_cutoff[1]

RECURSIVE GroupEvents(_, _, _, _)
\* the while loop over the segments, from 1-based position i: the events kept
\* and the events the cutoff dropped
GroupEvents(segments, i, min_prominence, ph_cutoff) ==
    IF i > Len(segments) THEN [events |-> <<>>, dropped |-> <<>>]
    ELSE IF RLess(segments[i].max_abs_value, min_prominence)
    THEN GroupEvents(segments, i + 1, min_prominence, ph_cutoff)
    ELSE LET cur == segments[i]
             joined == i + 1 <= Len(segments) /\ Joins(cur, segments[i + 1], min_prominence)
             event == IF joined THEN Extended(EventOf(cur), cur, segments[i + 1])
                      ELSE EventOf(cur)
             rest == GroupEvents(segments, IF joined THEN i + 2 ELSE i + 1,
                                 min_prominence, ph_cutoff)
         IN  IF AboveCutoff(event, ph_cutoff)
             THEN [rest EXCEPT !.dropped = <<event>> \o @]
             ELSE [rest EXCEPT !.events = <<event>> \o @]

RECURSIVE InsertByApex(_, _)
InsertByApex(e, s) ==
    IF s = <<>> THEN <<e>>
    ELSE IF e.ph_apex < Head(s).ph_apex THEN <<e>> \o s
    ELSE <<Head(s)>> \o InsertByApex(e, Tail(s))

RECURSIVE SortByApex(_)
\* list.sort(key = ph_apex): stable, equal keys keep their order
SortByApex(s) ==
    IF s = <<>> THEN <<>>
    ELSE InsertByApex(s[Len(s)], SortByApex(SubSeq(s, 1, Len(s) - 1)))

\* np.median(np.diff(np.sort(ph_arr))), 0.05 pH for a single sample
MedianSpacing(ph) ==
    IF Len(ph) > 1
    THEN Median(Diff(SortR([i \in 1..Len(ph) |-> RInt(ph[i])])))
    ELSE DefaultSpacing

MergeTol(ph) == RMax(MergeFloor, RMul(RInt(3), MedianSpacing(ph)))
GapTol(ph) == RMax(GapFloor, RMul(R(3, 2), MedianSpacing(ph)))

IMin(a, b) == IF a <= b THEN a ELSE b
IMax(a, b) == IF a >= b THEN a ELSE b

\* the merge test on the apexes alone
CloseApexOnly(current, nxt, merge_tol, gap_tol) ==
    RLess(RInt(IAbs(nxt.ph_apex - current.ph_apex)), merge_tol)

Close(current, nxt, merge_tol, gap_tol) ==
    \/ RLess(RInt(IAbs(nxt.ph_apex - current.ph_apex)), merge_tol)
    \/ RLess(RInt(nxt.ph_start - current.ph_end), gap_tol)

Absorb(current, nxt) ==
    LET wider == [current EXCEPT !.start_idx = IMin(current.start_idx, nxt.start_idx),
                                 !.end_idx = IMax(current.end_idx, nxt.end_idx),
                                 !.ph_start = IMin(current.ph_start, nxt.ph_start),
                                 !.ph_end = IMax(current.ph_end, nxt.ph_end)]
    IN  IF RLess(current.max_abs_value, nxt.max_abs_value)
        THEN [wider EXCEPT !.max_abs_idx = nxt.max_abs_idx,
                           !.max_abs_value = nxt.max_abs_value,
                           !.ph_apex = nxt.ph_apex]
        ELSE wider

RECURSIVE MergeFrom(_, _, _, _)
\* the merge loop: current absorbs the events that are close to it
MergeFrom(current, rest, merge_tol, gap_tol) ==
    IF rest = <<>> THEN <<current>>
    ELSE IF Close(current, Head(rest), merge_tol, gap_tol)
    THEN MergeFrom(Absorb(current, Head(rest)), Tail(rest), merge_tol, gap_tol)
    ELSE <<current>> \o MergeFrom(Head(rest), Tail(rest), merge_tol, gap_tol)

MergeEvents(events, ph) ==
    IF events = <<>> THEN <<>>
    ELSE LET sorted == SortByApex(events)
         IN  MergeFrom(Head(sorted), Tail(sorted), MergeTol(ph), GapTol(ph))

\* the step taken from the end back to the start
calculate_peak_step_reversed(delta_b_values, peak_start_idx, peak_end_idx) ==
    LET last == Len(delta_b_values) - 1
        start_idx == IMax(0, IMin(peak_start_idx, last))
        end_idx == IMax(0, IMin(peak_end_idx, last))
    IN  RSub(delta_b_values[start_idx + 1], delta_b_values[end_idx + 1])

\* calculate_peak_step: the indices clamped into the data
calculate_peak_step(delta_b_values, peak_start_idx, peak_end_idx) ==
    LET last == Len(delta_b_values) - 1
        start_idx == IMax(0, IMin(peak_start_idx, last))
        end_idx == IMax(0, IMin(peak_end_idx, last))
    IN  RSub(delta_b_values[end_idx + 1], delta_b_values[start_idx + 1])

\* the filter without the test of |step|
StepKeptTolerant(step, step_min) == RLeq(RNeg(RDiv(step_min, RInt(2))), step)

\* the step filter: |step| >= step_min and step >= -0.5 * step_min
StepKept(step, step_min) ==
    /\ RLeq(step_min, RAbs(step))
    /\ RLeq(RNeg(RDiv(step_min, RInt(2))), step)

RECURSIVE Quantify(_, _, _, _)
\* the peaks of the merged events that pass the step filter, peak_id i + 1
\* from the event's position
Quantify(merged, i, smoothed, step_min) ==
    IF i > Len(merged) THEN <<>>
    ELSE LET step == calculate_peak_step(smoothed, merged[i].start_idx, merged[i].end_idx)
         IN  (IF StepKept(step, step_min)
              THEN <<[peak_id |-> i, ph_start |-> merged[i].ph_start,
                      ph_apex |-> merged[i].ph_apex, ph_end |-> merged[i].ph_end,
                      delta_b_step |-> step]>>
              ELSE <<>>)
             \o Quantify(merged, i + 1, smoothed, step_min)

\* peak ids left as the merged events' positions
KeepIds(peaks) == peaks

\* peak["peak_id"] = i + 1 in list order
Renumber(peaks) == [i \in 1..Len(peaks) |-> [peaks[i] EXCEPT !.peak_id = i]]

-----------------------------------------------------------------------------
(* peaks.py: one call of detect_and_quantify_peaks(ph_values, delta_b_values,
   ph_cutoff = ...) with the other arguments at their defaults *)

MaxSamples == 9              \* longest trace handed to the peak detector
IncGrid == {1, 5}            \* pH steps between samples: 0.1 or 0.5 pH
FirstIncGrid == {-3, 1, 5}   \* the first step may also fall back by 0.3 pH
DirGrid == {1, -1}           \* traces rise, or fall (titration with acid)
RisingBase == 10             \* first pH of a rising trace: pH 1.0
FallingBase == 60            \* first pH of a falling trace: pH 6.0
StepGrid == {0, 100}         \* size of the step at either end: 0 or 1e-3 mol/L
TallStepGrid == {1000}       \* a tall step at the end alone: 1e-2 mol/L
CutoffGrid == {20}           \* ph_cutoff: pH 2.0

RECURSIVE PhTrace(_, _, _)
\* the trace that starts at base and moves by dir * incs[k]
PhTrace(base, dir, incs) ==
    IF incs = <<>> THEN <<base>>
    ELSE <<base>> \o PhTrace(base + dir * Head(incs), dir, Tail(incs))

IncSeqs(n) ==
    IF n < 2 THEN {<<>>}
    ELSE {<<a>> \o r : a \in FirstIncGrid, r \in [1..(n - 2) -> IncGrid]}

PhTraces(n) ==
    IF n = 0 THEN {<<>>}
    ELSE {PhTrace(IF dir = 1 THEN RisingBase ELSE FallingBase, dir, incs) :
             dir \in DirGrid, incs \in IncSeqs(n)}

\* excess base: flat, the first sample lower and the last sample higher by a
\* step of StepGrid, or the last sample alone higher by a tall step
DeltaBTraces(n) ==
    {[i \in 1..n |-> IF i = 1 THEN -first ELSE IF i = n THEN last ELSE 0] :
        first \in StepGrid, last \in StepGrid}
    \cup {[i \in 1..n |-> IF i = n THEN last ELSE 0] : last \in TallStepGrid}

PeakInputs ==
    UNION {[ph_values : PhTraces(n), delta_b_values : DeltaBTraces(n),
            ph_cutoff : {NoValue} \cup {Some(c) : c \in CutoffGrid}] : n \in 0..MaxSamples}

VARIABLES
    pk_in,                \* arguments of the detect_and_quantify_peaks call
    pk_pc,                \* "idle", "call" or "done"
    pk_raised,            \* the exception the call ended with, or None
    pk_smoothed,          \* smoothed_delta_b
    pk_derivative,        \* derivative
    pk_crossings,         \* zero_crossings, start and end points added
    pk_segments,          \* segments
    pk_events,            \* events, after the cutoff test
    pk_cut_dropped,       \* the events the cutoff test dropped
    pk_merged,            \* merged_events
    pk_quantified,        \* peaks before the final sort, peak_id by event position
    pk_peaks              \* the list returned

peakVars == <<pk_in, pk_pc, pk_raised, pk_smoothed, pk_derivative, pk_crossings, pk_segments, pk_events,
              pk_cut_dropped, pk_merged, pk_quantified, pk_peaks>>

PeakIdle ==
    /\ pk_in = [ph_values |-> <<>>, delta_b_values |-> <<>>, ph_cutoff |-> NoValue]
    /\ pk_pc = "idle"
    /\ pk_raised = None
    /\ pk_smoothed = <<>>
    /\ pk_derivative = <<>>
    /\ pk_crossings = <<>>
    /\ pk_segments = <<>>
    /\ pk_events = <<>>
    /\ pk_cut_dropped = <<>>
    /\ pk_merged = <<>>
    /\ pk_quantified = <<>>
    /\ pk_peaks = <<>>

PeakStart ==
    /\ pk_in \in PeakInputs
    /\ pk_pc = "call"
    /\ pk_raised = None
    /\ pk_smoothed = <<>>
    /\ pk_derivative = <<>>
    /\ pk_crossings = <<>>
    /\ pk_segments = <<>>
    /\ pk_events = <<>>
    /\ pk_cut_dropped = <<>>
    /\ pk_merged = <<>>
    /\ pk_quantified = <<>>
    /\ pk_peaks = <<>>

\* the call left by ValueError before anything was detected
PeakCallRaises ==
    /\ pk_raised' = "ValueError"
    /\ pk_derivative' = <<>>
    /\ pk_crossings' = <<>>
    /\ pk_segments' = <<>>
    /\ pk_events' = <<>>
    /\ pk_cut_dropped' = <<>>
    /\ pk_merged' = <<>>
    /\ pk_quantified' = <<>>
    /\ pk_peaks' = <<>>

\* detect_and_quantify_peaks(ph_values, delta_b_values, ph_cutoff): the whole
\* call, its intermediate lists kept in the state
detect_and_quantify_peaks ==
    LET ph == pk_in.ph_values
        n == Len(ph)
        delta_b == [i \in 1..n |-> RInt(pk_in.delta_b_values[i])]
    IN
    /\ pk_pc = "call"
    /\ pk_pc' = "done"
    /\ UNCHANGED pk_in
    /\ \E odd_only \in (IF EvenWindow(n) THEN BOOLEAN ELSE {FALSE}) :
          IF odd_only
          THEN pk_smoothed' = <<>> /\ PeakCallRaises
          ELSE
            /\ pk_smoothed' = smooth_data(delta_b)
            /\ IF GradientRaises(n)
               THEN PeakCallRaises
               ELSE
                 /\ pk_raised' = None
                 /\ pk_derivative' = peaks_compute_derivative(ph, pk_smoothed')
                 /\ pk_crossings' = CrossingList(pk_derivative')
                 /\ pk_segments' = Segments(pk_crossings', pk_derivative', ph, 1)
                 /\ LET grouped == GroupEvents(pk_segments', 1, MinProminence(pk_derivative'),
                                               pk_in.ph_cutoff)
                    IN  /\ pk_events' = grouped.events
                        /\ pk_cut_dropped' = grouped.dropped
                 /\ pk_merged' = MergeEvents(pk_events', ph)
                 /\ pk_quantified' = Quantify(pk_merged', 1, pk_smoothed', StepMin(pk_smoothed'))
                 /\ pk_peaks' = Renumber(SortByApex(pk_quantified'))

-----------------------------------------------------------------------------
(* chem.py: solve_h.  A concentration 10 ** e is written as its exponent e.
   The call looks at g only through np.sign at the four bracket endpoints
   and through brentq, so g is given by its sign at those endpoints. *)

FirstBracket == [lower |-> -14, upper |-> 0]       \* lower, upper = 1e-14, 1.0
\* a second bracket that is the first one again
WideBracketSame == FirstBracket
WideBracket == [lower |-> -16, upper |-> 1]        \* lower, upper = 1e-16, 10.0

Signs == {-1, 0, 1}                                \* values of np.sign
Endpoints == {-16, -14, 0, 1}
GSigns == [Endpoints -> Signs]

VARIABLES
    sh_g,                 \* np.sign(g(h)) at the endpoints, for the arguments of the call
    sh_pc,                \* "call" before the call, "done" after it
    sh_bracket,           \* lower, upper when the call ended
    sh_widenings,         \* how often the bracket was replaced
    sh_raised,            \* the exception the call ended with, or None
    sh_h                  \* the value returned, or NoValue

solveVars == <<sh_g, sh_pc, sh_bracket, sh_widenings, sh_raised, sh_h>>

SolveIdle ==
    /\ sh_g = [e \in Endpoints |-> 0]
    /\ sh_pc = "idle"
    /\ sh_bracket = FirstBracket
    /\ sh_widenings = 0
    /\ sh_raised = None
    /\ sh_h = NoValue

SolveStart ==
    /\ sh_g \in GSigns
    /\ sh_pc = "call"
    /\ sh_bracket = FirstBracket
    /\ sh_widenings = 0
    /\ sh_raised = None
    /\ sh_h = NoValue

\* np.sign(g(lower)) == np.sign(g(upper))
SameSign(g, bracket) == g[bracket.lower] = g[bracket.upper]

\* optimize.brentq(g, lower, upper): a point of [lower, upper]
brentq(bracket) == bracket.lower..bracket.upper

\* solve_h(c_a_mix, na)
solve_h ==
    /\ sh_pc = "call"
    /\ LET widen == SameSign(sh_g, FirstBracket)
           bracket == IF widen THEN WideBracket ELSE FirstBracket
       IN  /\ sh_bracket' = bracket
           /\ sh_widenings' = IF widen THEN 1 ELSE 0
           /\ IF SameSign(sh_g, bracket)
              THEN sh_raised' = "ValueError" /\ sh_h' = NoValue
              ELSE sh_raised' = None /\ \E h \in brentq(bracket) : sh_h' = Some(h)
    /\ sh_pc' = "done"
    /\ UNCHANGED sh_g

-----------------------------------------------------------------------------
(* peaks.py: smooth_data with any window length and polynomial order.  The
   run follows which filter is asked for and whether savgol_filter accepts
   the request; the filtered values themselves are not part of it. *)

MaxSmoothLen == 7            \* longest sequence handed to smooth_data in this run
SmoothGrid == {0, 1}         \* the values of y
WindowLengthGrid == {2, 3, 4, 5, 8, 9}
PolyorderGrid == {1, 2, 3, 5}

VARIABLES
    sm_in,                \* y, window_length, polyorder
    sm_pc,                \* "call" before the call, "done" after it
    sm_raised,            \* the exception the call ended with, or None
    sm_copied,            \* TRUE when the result is np.array(y)
    sm_len,               \* number of values returned
    sm_values             \* the values returned when they are a copy of y

smoothVars == <<sm_in, sm_pc, sm_raised, sm_copied, sm_len, sm_values>>

SmoothInputs ==
    [y : SeqsUpTo(SmoothGrid, MaxSmoothLen), window_length : WindowLengthGrid,
     polyorder : PolyorderGrid]

SmoothIdle ==
    /\ sm_in = [y |-> <<>>, window_length |-> 9, polyorder |-> 3]
    /\ sm_pc = "idle"
    /\ sm_raised = None
    /\ sm_copied = FALSE
    /\ sm_len = 0
    /\ sm_values = <<>>

SmoothStart ==
    /\ sm_in \in SmoothInputs
    /\ sm_pc = "call"
    /\ sm_raised = None
    /\ sm_copied = FALSE
    /\ sm_len = 0
    /\ sm_values = <<>>

\* window_length after "if window_length % 2 == 0: window_length += 1"
OddWindow(window_length) ==
    IF window_length % 2 = 0 THEN window_length + 1 ELSE window_length

\* the request smooth_data hands to savgol_filter, or a plain copy
SmoothPlan(n, window_length, polyorder) ==
    LET odd == OddWindow(window_length)
    IN  IF n < odd
        THEN IF n > 3
             THEN [copy |-> FALSE, window_length |-> FallbackWindow(n),
                   polyorder |-> IMin(polyorder, FallbackWindow(n) - 1)]
             ELSE [copy |-> TRUE, window_length |-> odd, polyorder |-> polyorder]
        ELSE [copy |-> FALSE, window_length |-> odd, polyorder |-> polyorder]

\* signal.savgol_filter(x, window_length, polyorder) with mode="interp" raises
\* ValueError for a window longer than x, for polyorder >= window_length and,
\* in builds that demand an odd window, for an even window
savgol_rejects(n, window_length, polyorder, odd_only) ==
    \/ window_length > n
    \/ polyorder >= window_length
    \/ (odd_only /\ window_length % 2 = 0)

\* smooth_data(y, window_length, polyorder)
smooth_data_call ==
    /\ sm_pc = "call"
    /\ LET n == Len(sm_in.y)
           plan == SmoothPlan(n, sm_in.window_length, sm_in.polyorder)
       IN  IF plan.copy
           THEN /\ sm_raised' = None
                /\ sm_copied' = TRUE
                /\ sm_len' = n
                /\ sm_values' = sm_in.y
           ELSE \E odd_only \in BOOLEAN :
                   IF savgol_rejects(n, plan.window_length, plan.polyorder, odd_only)
                   THEN /\ sm_raised' = "ValueError"
                        /\ sm_len' = 0
                        /\ UNCHANGED <<sm_copied, sm_values>>
                   ELSE /\ sm_raised' = None
                        /\ sm_len' = n
                        /\ UNCHANGED <<sm_copied, sm_values>>
    /\ sm_pc' = "done"
    /\ UNCHANGED sm_in

-----------------------------------------------------------------------------
(* peaks.py: one call of find_zero_crossings on an array of the caller.
   np.asarray(y, dtype=float) does not copy an array of floats, so y_arr is
   the caller's array; np.sign makes the array the fill loop writes to. *)

MaxCrossLen == 4             \* longest array handed to find_zero_crossings in this run
CrossGrid == {-1, 0, 1}      \* the values of y

VARIABLES
    zc_y,                 \* the caller's array, which y_arr refers to
    zc_pc,                \* "call" before the call, "done" after it
    zc_signs,             \* signs, after the fill loop
    zc_crossings          \* the list returned

crossVars == <<zc_y, zc_pc, zc_signs, zc_crossings>>

CrossInputs ==
    UNION {[1..n -> {RInt(v) : v \in CrossGrid}] : n \in 0..MaxCrossLen}

CrossIdle ==
    /\ zc_y = <<>>
    /\ zc_pc = "idle"
    /\ zc_signs = <<>>
    /\ zc_crossings = <<>>

CrossStart ==
    /\ zc_y \in CrossInputs
    /\ zc_pc = "call"
    /\ zc_signs = <<>>
    /\ zc_crossings = <<>>

\* the fill loop writing to the caller's array instead of a new one
find_zero_crossings_in_place ==
    /\ zc_pc = "call"
    /\ zc_signs' = FilledSigns(zc_y, Len(zc_y))
    /\ zc_y' = [i \in 1..Len(zc_y) |-> RInt(zc_signs'[i])]
    /\ zc_crossings' = SortInts(find_zero_crossings(zc_y))
    /\ zc_pc' = "done"

\* find_zero_crossings(x, y)
find_zero_crossings_call ==
    /\ zc_pc = "call"
    /\ zc_signs' = FilledSigns(zc_y, Len(zc_y))
    /\ zc_crossings' = SortInts(find_zero_crossings(zc_y))
    /\ zc_pc' = "done"
    /\ UNCHANGED zc_y

-----------------------------------------------------------------------------
(* chem.py: the two dose / sodium conversions in double precision, on doses
   and concentrations that are powers of two.  A double is held as m * 2 ** e
   with m a ratio of odd numbers (or 0).  A sum or difference with 1 loses
   the smaller operand when it lies below half a unit in the last place of
   the larger one; the rounding of a sum or quotient that keeps both operands
   (one part in 2 ** 53) is left out. *)

MantissaBits == 53           \* significand of a Python float

FlZero == [m |-> Zero, e |-> 0]
FlOne == [m |-> RInt(1), e |-> 0]
FlPow2(e) == [m |-> RInt(1), e |-> e]
FlIsPow2(x) == x.m = RInt(1)

\* the rational m * 2 ** e, for exponents near 0
FlVal(x) == RMul(x.m, IF x.e >= 0 THEN RInt(Pow2(x.e)) ELSE R(1, Pow2(-x.e)))

RECURSIVE FlNorm(_, _, _)
\* n / d * 2 ** e with the factors of 2 moved from n and d into e
FlNorm(n, d, e) ==
    IF n = 0 THEN FlZero
    ELSE IF n % 2 = 0 THEN FlNorm(n \div 2, d, e + 1)
    ELSE IF d % 2 = 0 THEN FlNorm(n, d \div 2, e - 1)
    ELSE [m |-> R(n, d), e |-> e]

FlFromRational(r) == FlNorm(r[1], r[2], 0)

\* x / y for y # 0
FlDiv(x, y) ==
    LET q == RDiv(x.m, y.m)
    IN  FlNorm(q[1], q[2], x.e - y.e)

\* 1 + x for a power of two x: x from 2 ** 53 on, 1 up to 2 ** -53
FlOnePlus(x) ==
    IF FlIsPow2(x) /\ x.e >= MantissaBits THEN x
    ELSE IF FlIsPow2(x) /\ x.e <= -MantissaBits THEN FlOne
    ELSE FlFromRational(RAdd(RInt(1), FlVal(x)))

\* 1 - x for 0 <= x <= 1: 1 for a power of two up to 2 ** -54
FlOneMinus(x) ==
    IF FlIsPow2(x) /\ x.e <= -(MantissaBits + 1) THEN FlOne
    ELSE FlFromRational(RSub(RInt(1), FlVal(x)))

\* b_meas / (1 + b_meas / c_b)
convert_normalized_base_to_na_fl(b_meas, c_b) == FlDiv(b_meas, FlOnePlus(FlDiv(b_meas, c_b)))

\* the divisor 1 - na_model / c_b
NaToBaseDivisor(na_model, c_b) == FlOneMinus(FlDiv(na_model, c_b))

\* the inverse conversion with the sign of the divisor's second term turned
convert_na_to_normalized_base_plus(na_model, c_b) ==
    FlDiv(na_model, FlOnePlus(FlDiv(na_model, c_b)))

\* na_model / (1 - na_model / c_b), where the divisor is not 0
convert_na_to_normalized_base_fl(na_model, c_b) ==
    FlDiv(na_model, NaToBaseDivisor(na_model, c_b))

\* exponents of the doses b and of the titrant concentrations c_b
DoseExponents == (-64..-58) \cup (-3..3) \cup (58..64)
CbExponents == -2..2

VARIABLES
    rt_in,                \* exponents of b and c_b
    rt_pc,                \* "call" before the round trip, "done" after it
    rt_na,                \* convert_normalized_base_to_na(b, c_b)
    rt_raised,            \* the exception the round trip ended with, or None
    rt_back               \* convert_na_to_normalized_base(na, c_b), or NoValue

convVars == <<rt_in, rt_pc, rt_na, rt_raised, rt_back>>

ConvInputs == [b : DoseExponents, c_b : CbExponents]

ConvIdle ==
    /\ rt_in = [b |-> 0, c_b |-> 0]
    /\ rt_pc = "idle"
    /\ rt_na = FlZero
    /\ rt_raised = None
    /\ rt_back = NoValue

ConvStart ==
    /\ rt_in \in ConvInputs
    /\ rt_pc = "call"
    /\ rt_na = FlZero
    /\ rt_raised = None
    /\ rt_back = NoValue

\* convert_na_to_normalized_base(convert_normalized_base_to_na(b, c_b), c_b)
convert_round_trip ==
    /\ rt_pc = "call"
    /\ rt_na' = convert_normalized_base_to_na_fl(FlPow2(rt_in.b), FlPow2(rt_in.c_b))
    /\ IF NaToBaseDivisor(rt_na', FlPow2(rt_in.c_b)) = FlZero
       THEN rt_raised' = "ZeroDivisionError" /\ rt_back' = NoValue
       ELSE /\ rt_raised' = None
            /\ rt_back' = Some(convert_na_to_normalized_base_fl(rt_na', FlPow2(rt_in.c_b)))
    /\ rt_pc' = "done"
    /\ UNCHANGED rt_in

-----------------------------------------------------------------------------
(* Specifications *)

pureVars == <<windowVars, solveVars, smoothVars, convVars, crossVars>>
PureIdle == WindowIdle /\ SolveIdle /\ SmoothIdle /\ ConvIdle /\ CrossIdle

vars == <<chem, procVars, apiVars, curveVars, estVars, peakVars, pureVars>>

\* runs that never look at the table hold one fixed table
ChemIdle == chem = CHOOSE c \in ChemTables : TRUE

\* one call of process_titration_data
InitProc == chem \in ChemTables /\ ProcStart /\ ApiStart /\ CurveIdle /\ EstIdle /\ PeakIdle /\ PureIdle
NextProc ==
    process_titration_data
    /\ UNCHANGED <<chem, apiVars, curveVars, estVars, peakVars, pureVars>>
SpecProc == InitProc /\ [][NextProc]_vars

\* the server answering compute requests
InitApi == chem \in ChemTables /\ ProcIdle /\ ApiStart /\ CurveIdle /\ EstIdle /\ PeakIdle /\ PureIdle
NextApi == compute_data /\ UNCHANGED <<chem, procVars, curveVars, estVars, peakVars, pureVars>>
SpecApi == InitApi /\ [][NextApi]_vars

\* the server answering the compute and export requests of a session
NextSession ==
    (session_compute \/ export_data \/ assign_peaks)
    /\ UNCHANGED <<chem, procVars, curveVars, estVars, peakVars, pureVars>>
SpecSession == InitApi /\ [][NextSession]_vars

\* one call of build_model_curve
InitCurve == ChemIdle /\ ProcIdle /\ ApiStart /\ CurveStart /\ EstIdle /\ PeakIdle /\ PureIdle
NextCurve ==
    (curve_point \/ curve_attempt_end)
    /\ UNCHANGED <<chem, procVars, apiVars, estVars, peakVars, pureVars>>
SpecCurve == InitCurve /\ [][NextCurve]_vars

\* build_model_curve with its loops always taking their next step
SpecCurveFair == SpecCurve /\ WF_vars(NextCurve)

\* one call of estimate_c_a
InitEst == ChemIdle /\ ProcIdle /\ ApiStart /\ CurveIdle /\ EstStart /\ PeakIdle /\ PureIdle
NextEst ==
    estimate_c_a_call /\ UNCHANGED <<chem, procVars, apiVars, curveVars, peakVars, pureVars>>
SpecEst == InitEst /\ [][NextEst]_vars

\* one call of detect_and_quantify_peaks
InitPeaks == ChemIdle /\ ProcIdle /\ ApiStart /\ CurveIdle /\ EstIdle /\ PeakStart /\ PureIdle
NextPeaks ==
    detect_and_quantify_peaks
    /\ UNCHANGED <<chem, procVars, apiVars, curveVars, estVars, pureVars>>
SpecPeaks == InitPeaks /\ [][NextPeaks]_vars

------------------------------------------------------------------------

\* every component of the other runs at rest
RestIdle == ChemIdle /\ ProcIdle /\ ApiStart /\ CurveIdle /\ EstIdle /\ PeakIdle
restVars == <<chem, procVars, apiVars, curveVars, estVars, peakVars>>

\* the baseline window of one call of process_titration_data
InitWindow ==
    RestIdle /\ WindowStart /\ SolveIdle /\ SmoothIdle /\ ConvIdle /\ CrossIdle
NextWindow ==
    baseline_window /\ UNCHANGED <<restVars, solveVars, smoothVars, convVars, crossVars>>
SpecWindow == InitWindow /\ [][NextWindow]_vars

\* one call of solve_h
InitSolve ==
    RestIdle /\ WindowIdle /\ SolveStart /\ SmoothIdle /\ ConvIdle /\ CrossIdle
NextSolve ==
    solve_h /\ UNCHANGED <<restVars, windowVars, smoothVars, convVars, crossVars>>
SpecSolve == InitSolve /\ [][NextSolve]_vars

\* one call of smooth_data
InitSmooth ==
    RestIdle /\ WindowIdle /\ SolveIdle /\ SmoothStart /\ ConvIdle /\ CrossIdle
NextSmooth ==
    smooth_data_call /\ UNCHANGED <<restVars, windowVars, solveVars, convVars, crossVars>>
SpecSmooth == InitSmooth /\ [][NextSmooth]_vars

\* one round trip through the two conversions
InitConv ==
    RestIdle /\ WindowIdle /\ SolveIdle /\ SmoothIdle /\ ConvStart /\ CrossIdle
NextConv ==
    convert_round_trip
    /\ UNCHANGED <<restVars, windowVars, solveVars, smoothVars, crossVars>>
SpecConv == InitConv /\ [][NextConv]_vars

\* one call of find_zero_crossings
InitCross ==
    RestIdle /\ WindowIdle /\ SolveIdle /\ SmoothIdle /\ ConvIdle /\ CrossStart
NextCross ==
    find_zero_crossings_call
    /\ UNCHANGED <<restVars, windowVars, solveVars, smoothVars, convVars>>

\* one call of any of the functions that take the caller's sequences
InitCalls == InitCross \/ InitSmooth \/ InitEst \/ InitProc \/ InitPeaks
NextCalls == NextCross \/ NextSmooth \/ NextEst \/ NextProc \/ NextPeaks
SpecCalls == InitCalls /\ [][NextCalls]_vars

-----------------------------------------------------------------------------
(* Claims about process_titration_data *)

UpperBound == RMul(ClampFactor, RInt(pr_in.c_b))

\* C1: after the call, every constrained model-sodium value lies in
\* [0, 0.999 * c_b] and the sequence is non-decreasing.
C1_ConstrainedSodiumBoundedMonotone ==
    pr_pc = "done" =>
        /\ Len(pr_na_model_clamped) = Len(pr_na_model_shifted)
        /\ \A i \in 1..Len(pr_na_model_clamped) :
              /\ RLeq(Zero, pr_na_model_clamped[i])
              /\ RLeq(pr_na_model_clamped[i], UpperBound)
              /\ i < Len(pr_na_model_clamped) =>
                    RLeq(pr_na_model_clamped[i], pr_na_model_clamped[i + 1])

\* C1 witness: a finished run whose anchored values leave the bounds on both
\* sides and fall from one row to the next, so that both the clamp and the
\* running maximum changed something.
C1_Witness ==
    /\ pr_pc = "done"
    /\ \E i \in 1..Len(pr_na_model_shifted) : RLess(pr_na_model_shifted[i], Zero)
    /\ \E i \in 1..Len(pr_na_model_shifted) : RLess(UpperBound, pr_na_model_shifted[i])
    /\ \E i \in 2..Len(pr_na_model_shifted) :
          /\ RLess(pr_na_model_shifted[i], pr_na_model_shifted[i - 1])
          /\ pr_na_model_clamped[i] # RMax(Zero, RMin(UpperBound, pr_na_model_shifted[i]))

RowFields ==
    {"time", "pH", "v_b", "n_b", "b_meas", "na", "b_model", "delta_b", "d_delta_b_d_ph"}

\* C6: for N samples (pH and time lists of the same length N) and
\* 0 <= start_index the call returns max(0, N - start_index) rows; row i
\* carries the pH and time of sample start_index + i and all the row fields.
C6_RowCountAndOrder ==
    (pr_pc = "done" /\ Len(pr_in.ph_values) = Len(pr_in.time_values)) =>
        LET N == Len(pr_in.ph_values)
            expected == IF N - pr_in.start_index > 0 THEN N - pr_in.start_index ELSE 0
        IN  /\ pr_raised = None
            /\ Len(pr_rows) = expected
            /\ \A i \in 1..Len(pr_rows) :
                  /\ pr_rows[i].pH = pr_in.ph_values[pr_in.start_index + i]
                  /\ pr_rows[i].time = pr_in.time_values[pr_in.start_index + i]
                  /\ RowFields \subseteq DOMAIN pr_rows[i]

\* C6 witness: a finished run that skipped a leading sample and returned two
\* rows with different pH and different time.
C6_Witness ==
    /\ pr_pc = "done"
    /\ Len(pr_in.ph_values) = Len(pr_in.time_values)
    /\ pr_in.start_index = 1
    /\ Len(pr_rows) = 2
    /\ pr_rows[1].pH # pr_rows[2].pH
    /\ pr_rows[1].time # pr_rows[2].time
    /\ pr_rows[1].pH # pr_in.ph_values[1]

\* C8: a call with a pH list and a time list of different lengths ends in an
\* error instead of returning rows.
C8_LengthMismatchRaises ==
    (pr_pc = "done" /\ Len(pr_in.ph_values) # Len(pr_in.time_values)) =>
        pr_raised # None

\* (delta_b[b] - delta_b[a]) / (pH[b] - pH[a]) over the returned rows a and b,
\* 0.0 for equal pH
RowQuotient(a, b) ==
    IF pr_rows[b].pH = pr_rows[a].pH THEN Zero
    ELSE RDiv(RSub(pr_rows[b].delta_b, pr_rows[a].delta_b),
              RInt(pr_rows[b].pH - pr_rows[a].pH))

\* C25: the derivative of delta_b with respect to pH has one value per row:
\* the forward difference at the first row, the backward difference at the
\* last row and the central difference elsewhere; it is 0.0 where the pH
\* difference used is exactly 0, and all zeros for 0 or 1 rows.
C25_DerivativeDifferences ==
    (pr_pc = "done" /\ pr_raised = None) =>
        LET n == Len(pr_rows)
        IN  /\ n = Len(pr_final_processed)
            /\ n = 1 => pr_rows[1].d_delta_b_d_ph = Zero
            /\ n >= 2 =>
                  /\ pr_rows[1].d_delta_b_d_ph = RowQuotient(1, 2)
                  /\ pr_rows[n].d_delta_b_d_ph = RowQuotient(n - 1, n)
                  /\ \A i \in 2..(n - 1) :
                        pr_rows[i].d_delta_b_d_ph = RowQuotient(i - 1, i + 1)

\* C25 witness: three rows returned, the first two with the same pH and
\* different delta_b (derivative 0.0 at the first row), and a central
\* difference at the middle row that differs from the backward difference at the last row
C25_Witness ==
    /\ pr_pc = "done"
    /\ pr_raised = None
    /\ Len(pr_rows) = 3
    /\ pr_rows[1].pH = pr_rows[2].pH
    /\ pr_rows[1].delta_b # pr_rows[2].delta_b
    /\ pr_rows[1].d_delta_b_d_ph = Zero
    /\ pr_rows[2].d_delta_b_d_ph # Zero
    /\ pr_rows[2].d_delta_b_d_ph # pr_rows[3].d_delta_b_d_ph

-----------------------------------------------------------------------------
(* Claims about POST /api/compute *)

\* C7: a compute request that fixes the background-acid concentration
\* (c_a_known) over well-formed rows completes without error, and the C_A it
\* returns is the supplied value.
C7_OverrideAccepted ==
    (api_response # NoValue /\ api_request[1].c_a_known # NoValue
        /\ FirstBadRow(api_request[1].rows) = 0) =>
        /\ api_response[1].status = 200
        /\ api_response[1].c_a = Some(RInt(api_request[1].c_a_known[1]))

\* C27: a compute request in which some row lacks the mapped pH or time
\* column, or holds a non-numeric value in one of them, is answered with
\* status 400 and leaves the stored last-result state as it was.
C27_BadRowRejectedWith400 ==
    (api_response # NoValue /\ FirstBadRow(api_request[1].rows) # 0) =>
        /\ api_response[1].status = 400
        /\ lastState = <<NoValue, NoValue, NoValue, NoValue, NoValue>>

-----------------------------------------------------------------------------
(* Claims about build_model_curve *)

\* the doses of the current attempt whose solve succeeded, in grid order
RECURSIVE RecordedDoses(_)
RecordedDoses(i) ==
    IF i = 0 THEN <<>>
    ELSE IF (i - 1) \in cv_failed THEN RecordedDoses(i - 1)
    ELSE Append(RecordedDoses(i - 1), linspace(cv_b_max, cv_in.num_points, i - 1))

\* C9: a ValueError of solve_h never leaves build_model_curve; the failed grid
\* point is skipped and the rest of the attempt is still evaluated; the pH and
\* dose lists hold one entry per grid point whose solve succeeded, so both
\* have the same length, at most num_points.
C9_SolveFailureSkipped ==
    /\ cv_raised = None
    /\ Len(cv_ph_list) = Len(cv_b_list)
    /\ Len(cv_ph_list) <= cv_in.num_points
    /\ cv_pc = "grid" => cv_b_list = RecordedDoses(cv_idx)
    /\ cv_pc = "grid" => Len(cv_ph_list) + Cardinality(cv_failed) = cv_idx
    /\ cv_pc = "done" =>
          /\ cv_idx = cv_in.num_points
          /\ Len(cv_ph_list) + Cardinality(cv_failed) = cv_in.num_points

\* C9 witness: a returned curve whose last attempt lost a grid point to a
\* solver failure and still recorded a later grid point.
C9_Witness ==
    /\ cv_pc = "done"
    /\ cv_raised = None
    /\ \E i \in cv_failed : \E j \in (0..(cv_in.num_points - 1)) \ cv_failed : i < j
    /\ Len(cv_b_list) = cv_in.num_points - Cardinality(cv_failed)
    /\ Len(cv_b_list) > 0

\* the curve of the attempt just swept is non-empty and ends at or above the target
TargetReached == cv_ph_list # <<>> /\ cv_ph_list[Len(cv_ph_list)] >= TargetPh

\* what holds during and after the sweeps: attempt k = cv_iteration + 1 is one
\* of 8, its grid runs from 0 to 2.5 * C_A * 2 ** (k - 1), it starts from
\* empty lists, and a return before the 8th attempt has reached the target
AttemptsBounded ==
    /\ cv_iteration \in 0..(MaxIterations - 1)
    /\ cv_idx \in 0..cv_in.num_points
    /\ cv_pc = "grid" =>
          /\ cv_b_max = RMul(R(5, 2), RInt(cv_in.c_a * Pow2(cv_iteration)))
          /\ cv_b_list = RecordedDoses(cv_idx)
          /\ cv_idx = 0 => (cv_ph_list = <<>> /\ cv_b_list = <<>>)
    /\ (cv_pc = "done" /\ cv_iteration < MaxIterations - 1) => TargetReached

\* an attempt that reached the target is the last one, any other attempt
\* before the 8th is followed by the next
StopsAtFirstSuccess ==
    (cv_pc = "grid" /\ cv_idx = cv_in.num_points) =>
        IF TargetReached \/ cv_iteration = MaxIterations - 1
        THEN cv_pc' = "done" /\ cv_iteration' = cv_iteration
        ELSE cv_pc' = "grid" /\ cv_iteration' = cv_iteration + 1

\* C14: build_model_curve always terminates, after at most 8 attempts; attempt
\* k sweeps a uniform grid of num_points doses from 0 to 2.5 * C_A * 2 ** (k - 1)
\* starting from empty lists; it stops after the first attempt whose curve is
\* non-empty with final pH >= target_ph, so a return after fewer than 8
\* attempts has a last pH >= target_ph.
C14_TerminatesWithinEightAttempts ==
    /\ []AttemptsBounded
    /\ [][StopsAtFirstSuccess]_vars
    /\ <>(cv_pc = "done")

\* C14 witness: a curve returned by the third attempt, after two attempts
\* that fell short of the target
C14_Witness ==
    /\ cv_pc = "done"
    /\ cv_iteration = 2
    /\ cv_b_max = RMul(RInt(10), RInt(cv_in.c_a))
    /\ TargetReached
    /\ Len(cv_ph_list) > 1

-----------------------------------------------------------------------------
(* Claims about estimate_c_a *)

\* the per-row estimate C_j = (na_j + h_j - oh_j) / f(h_j), f(h) = (h + 2 K_A2) / (h + K_A2)
RowEstimate(row) ==
    RDiv(RMul(RInt(row.na + row.h - row.oh), RInt(row.h + K_A2)), RInt(row.h + 2 * K_A2))

\* m is the median of the values x[j], j in J: a value with at most half of
\* the values on either side, the mean of the two middle values when the
\* halves are even
IsMedian(m, x, J) ==
    LET n == Cardinality(J)
        below == {j \in J : RLess(x[j], m)}
        above == {j \in J : RLess(m, x[j])}
    IN  \/ /\ \E j \in J : x[j] = m
           /\ 2 * Cardinality(below) < n
           /\ 2 * Cardinality(above) < n
        \/ /\ 2 * Cardinality(below) = n
           /\ 2 * Cardinality(above) = n
           /\ \E lo \in below, hi \in above :
                 /\ \A j \in below : RLeq(x[j], x[lo])
                 /\ \A j \in above : RLeq(x[hi], x[j])
                 /\ m = RDiv(RAdd(x[lo], x[hi]), RInt(2))

MedianOver(x, J) ==
    CHOOSE m \in {x[j] : j \in J} \cup {RDiv(RAdd(x[i], x[j]), RInt(2)) : i, j \in J} :
        IsMedian(m, x, J)

\* C10: on a non-empty baseline estimate_c_a returns the median of the C_j
\* when their MAD is zero, otherwise the median of exactly the C_j within
\* 3 * 1.4826 * MAD of the median, and the plain median when no C_j is; the
\* call does not raise.
C10_RobustMedian ==
    (est_pc = "done" /\ Len(est_in) > 0) =>
        LET J == 1..Len(est_in)
            C == [j \in J |-> RowEstimate(est_in[j])]
            med == MedianOver(C, J)
            dev == [j \in J |-> RAbs(RSub(C[j], med))]
            mad == MedianOver(dev, J)
            keep == {j \in J : RLeq(dev[j], RMul(R(3 * 14826, 10000), mad))}
        IN  /\ est_raised = None
            /\ IsMedian(med, C, J)
            /\ RIsZero(mad) => est_result = med
            /\ (~RIsZero(mad) /\ keep = {}) => est_result = med
            /\ (~RIsZero(mad) /\ keep # {}) => IsMedian(est_result, C, keep)

\* C10 witness: a finished call whose MAD is not zero and that rejects a row,
\* so that the value returned is not the median of all rows.
C10_Witness ==
    /\ est_pc = "done"
    /\ Len(est_in) > 0
    /\ LET J == 1..Len(est_in)
           C == [j \in J |-> RowEstimate(est_in[j])]
           med == MedianOver(C, J)
           dev == [j \in J |-> RAbs(RSub(C[j], med))]
           mad == MedianOver(dev, J)
       IN  /\ ~RIsZero(mad)
           /\ \E j \in J : RLess(RMul(R(3 * 14826, 10000), mad), dev[j])
           /\ est_result # med

\* the per-row estimates of the call
EstArr ==
    c_a_estimates([j \in 1..Len(est_in) |-> RInt(est_in[j].na)],
                  [j \in 1..Len(est_in) |-> RInt(est_in[j].h)],
                  [j \in 1..Len(est_in) |-> RInt(est_in[j].oh)], RInt(K_A2))

\* the rows of arr within the threshold of the median med, for the MAD mad
Inliers(arr, med, mad) ==
    {j \in 1..Len(arr) : RLeq(RAbs(RSub(arr[j], med)), InlierThreshold(mad))}

\* C29: whenever the MAD of the per-row estimates is greater than zero, at
\* least half of them (rounded up) lie within 3 * 1.4826 * MAD of the median,
\* so the inlier set is not empty and the fallback to the unfiltered median
\* is not taken; the value returned lies between the smallest and the
\* largest per-row estimate.
C29_InliersAtLeastHalf ==
    (est_pc = "done" /\ Len(est_in) > 0) =>
        LET J == 1..Len(est_in)
            arr == EstArr
            med == MedianOver(arr, J)
            mad == MedianOver(AbsDev(arr, med), J)
            keep == Inliers(arr, med, mad)
        IN  /\ RLess(Zero, mad) =>
                  /\ 2 * Cardinality(keep) >= Len(est_in)
                  /\ keep # {}
                  /\ IsMedian(est_result, arr, keep)
            /\ \E lo, hi \in J :
                  RLeq(arr[lo], est_result) /\ RLeq(est_result, arr[hi])

\* C29 witness: three rows with a MAD above zero of which exactly two lie
\* within the threshold, the value returned lying strictly between them
C29_Witness ==
    /\ est_pc = "done"
    /\ Len(est_in) = 3
    /\ LET J == 1..Len(est_in)
           arr == EstArr
           med == MedianOver(arr, J)
           mad == MedianOver(AbsDev(arr, med), J)
           keep == Inliers(arr, med, mad)
       IN  /\ RLess(Zero, mad)
           /\ Cardinality(keep) = 2
           /\ \A j \in keep : est_result # arr[j]

-----------------------------------------------------------------------------
(* Claims about detect_and_quantify_peaks *)

PeakCallReturned == pk_pc = "done" /\ pk_raised = None

\* C2: with a pH cutoff no returned peak, and no merged event, has its apex
\* above the cutoff; without a cutoff no event is dropped for its apex pH.
C2_CutoffBoundsApex ==
    PeakCallReturned =>
        /\ pk_in.ph_cutoff # NoValue =>
              /\ \A i \in 1..Len(pk_peaks) : pk_peaks[i].ph_apex <= pk_in.ph_cutoff[1]
              /\ \A i \in 1..Len(pk_merged) : pk_merged[i].ph_apex <= pk_in.ph_cutoff[1]
        /\ pk_in.ph_cutoff = NoValue => pk_cut_dropped = <<>>

\* C2 witness: a call with a cutoff that dropped an event whose apex lies
\* above it and returned a peak whose apex lies below it.
C2_Witness ==
    /\ PeakCallReturned
    /\ pk_in.ph_cutoff # NoValue
    /\ \E i \in 1..Len(pk_cut_dropped) : pk_cut_dropped[i].ph_apex > pk_in.ph_cutoff[1]
    /\ \E i \in 1..Len(pk_peaks) : pk_peaks[i].ph_apex < pk_in.ph_cutoff[1]

\* C3: the returned list is in ascending order of ph_apex and its peak_id
\* values are 1, 2, ..., n in list order, whatever the step filter discarded.
C3_SortedAndNumbered ==
    PeakCallReturned =>
        \A i \in 1..Len(pk_peaks) :
            /\ pk_peaks[i].peak_id = i
            /\ i < Len(pk_peaks) => pk_peaks[i].ph_apex <= pk_peaks[i + 1].ph_apex

\* C3 witness: a call that returned a peak whose merged event was not the
\* first one, the step filter having discarded an earlier event.
C3_Witness ==
    /\ PeakCallReturned
    /\ Len(pk_merged) >= 2
    /\ Len(pk_peaks) < Len(pk_merged)
    /\ \E i \in 1..Len(pk_peaks) : pk_quantified[i].peak_id # i

\* C4: for every trace of three or more samples each returned peak has
\* ph_start <= ph_apex <= ph_end, and the three are pH values of samples.
C4_PeakIntervalOrdered ==
    (PeakCallReturned /\ Len(pk_in.ph_values) >= 3) =>
        \A i \in 1..Len(pk_peaks) :
            /\ pk_peaks[i].ph_start <= pk_peaks[i].ph_apex
            /\ pk_peaks[i].ph_apex <= pk_peaks[i].ph_end
            /\ {pk_peaks[i].ph_start, pk_peaks[i].ph_apex, pk_peaks[i].ph_end}
                   \subseteq Range(pk_in.ph_values)

\* C5: a call with fewer than three samples returns an empty list and raises
\* nothing, and so does a call none of whose segments reaches the minimum
\* prominence.
C5_ShortInputEmptyNoError ==
    /\ (pk_pc = "done" /\ Len(pk_in.ph_values) < 3) =>
          (pk_raised = None /\ pk_peaks = <<>>)
    /\ (PeakCallReturned
           /\ \A i \in 1..Len(pk_segments) :
                 RLess(pk_segments[i].max_abs_value, MinProminence(pk_derivative))) =>
          pk_peaks = <<>>

\* ph_cutoff > data_min + 0.3 * (data_max - data_min): the cutoff lies in the
\* upper 70% of the observed pH range
HighCutoff ==
    LET data_min == MinOf(Range(pk_in.ph_values))
        data_max == MaxOf(Range(pk_in.ph_values))
    IN  10 * pk_in.ph_cutoff[1] > 10 * data_min + 3 * (data_max - data_min)

\* an event that passes the step filter
EventQuantifies(event) ==
    StepKept(calculate_peak_step(pk_smoothed, event.start_idx, event.end_idx),
             StepMin(pk_smoothed))

\* C15: when a cutoff in the upper 70% of the observed pH range, taken as an
\* upper bound, yields no peaks, detection is retried with the cutoff as a
\* lower bound, so that peaks located at or above the cutoff are returned.
C15_HighCutoffRetriedAsLowerBound ==
    (/\ PeakCallReturned
     /\ pk_in.ph_cutoff # NoValue
     /\ pk_in.ph_values # <<>>
     /\ HighCutoff
     /\ pk_quantified = <<>>) =>
        \A i \in 1..Len(pk_cut_dropped) :
            (pk_cut_dropped[i].ph_apex >= pk_in.ph_cutoff[1]
             /\ EventQuantifies(pk_cut_dropped[i])) =>
                \E j \in 1..Len(pk_peaks) : pk_peaks[j].ph_apex = pk_cut_dropped[i].ph_apex

\* the sign of derivative sample i (0-based), an exact zero taking the sign
\* of the sample before it
SampleSign(i) == FilledSigns(pk_derivative, i + 1)[i + 1]

\* the samples segment seg covers: derivative[start_idx:end_idx]
Covered(seg) == seg.start_idx..(seg.end_idx - 1)

\* no two samples the segment covers have opposite signs
OneSign(seg) == \A i, j \in Covered(seg) : SampleSign(i) * SampleSign(j) >= 0

\* the boundary k lies between samples of different sign
SignBoundary(k) ==
    \/ SampleSign(k - 1) # SampleSign(k)
    \/ SampleSign(k) # SampleSign(k + 1)

\* C21: the zero-crossing boundaries include index 0 and the last index, all
\* derivative samples a segment covers have the same sign, an exact zero
\* taking the sign of the sample before it, and an exact zero does not by
\* itself start a new segment.
C21_MonotoneSignSegments ==
    (PeakCallReturned /\ Len(pk_in.ph_values) >= 1) =>
        /\ 0 \in Range(pk_crossings)
        /\ (Len(pk_in.ph_values) - 1) \in Range(pk_crossings)
        /\ \A s \in 1..Len(pk_segments) : OneSign(pk_segments[s])
        /\ \A c \in 1..Len(pk_crossings) :
              (0 < pk_crossings[c] /\ pk_crossings[c] < Len(pk_in.ph_values) - 1) =>
                  SignBoundary(pk_crossings[c])

\* segment s + 1 exists, has the sign opposite to segment s and an apex of at
\* least half the minimum prominence
LobeFollows(s) ==
    /\ s < Len(pk_segments)
    /\ pk_segments[s].sign * pk_segments[s + 1].sign < 0
    /\ RLeq(RDiv(MinProminence(pk_derivative), RInt(2)), pk_segments[s + 1].max_abs_value)

RECURSIVE Opens(_)
\* segment s opens an event in a scan from the left: its apex reaches the
\* minimum prominence and it was not merged into an event segment s - 1 opened
Opens(s) ==
    /\ RLeq(MinProminence(pk_derivative), pk_segments[s].max_abs_value)
    /\ ~(s > 1 /\ Opens(s - 1) /\ LobeFollows(s - 1))

\* the event of opener s: segment s alone, or segments s and s + 1 with the
\* apex of the one of larger magnitude
EventOpenedBy(s) ==
    LET a == pk_segments[s]
        b == pk_segments[s + 1]
        top == IF LobeFollows(s) /\ RLess(a.max_abs_value, b.max_abs_value) THEN b ELSE a
        last == IF LobeFollows(s) THEN b ELSE a
    IN  [start_idx |-> a.start_idx, end_idx |-> last.end_idx,
         max_abs_idx |-> top.max_abs_idx, max_abs_value |-> top.max_abs_value,
         ph_start |-> a.ph_start, ph_end |-> last.ph_end, ph_apex |-> top.ph_apex]

\* the events formed, those the cutoff dropped afterwards included
FormedEvents == Range(pk_events) \cup Range(pk_cut_dropped)

\* C22: the event-formation scan visits the segments left to right; an event
\* is opened only by a segment whose apex magnitude is at least the minimum
\* prominence; the segment right after it is merged into the event exactly
\* when it has the opposite sign and an apex magnitude of at least half the
\* minimum prominence, the event apex then being that of the segment of
\* larger magnitude; every event spans one or two consecutive segments and
\* no segment belongs to more than one event.
C22_EventFormation ==
    PeakCallReturned =>
        /\ FormedEvents = {EventOpenedBy(s) : s \in {r \in 1..Len(pk_segments) : Opens(r)}}
        /\ Cardinality(FormedEvents) = Len(pk_events) + Len(pk_cut_dropped)
        /\ \A e1, e2 \in FormedEvents :
              e1 # e2 => (e1.end_idx <= e2.start_idx \/ e2.end_idx <= e1.start_idx)
        /\ \A i \in 1..(Len(pk_events) - 1) : pk_events[i].start_idx < pk_events[i + 1].start_idx

\* C22 witness: a call with an event of two segments, the second of opposite
\* sign and of larger magnitude, whose apex is the second segment's
C22_Witness ==
    /\ PeakCallReturned
    /\ \E s \in 1..(Len(pk_segments) - 1) :
          /\ Opens(s)
          /\ LobeFollows(s)
          /\ RLess(pk_segments[s].max_abs_value, pk_segments[s + 1].max_abs_value)
          /\ EventOpenedBy(s) \in FormedEvents
          /\ EventOpenedBy(s).ph_apex = pk_segments[s + 1].ph_apex
          /\ EventOpenedBy(s).ph_apex # pk_segments[s].ph_apex

StrictlyIncreasing(ph) == \A i \in 1..(Len(ph) - 1) : ph[i] < ph[i + 1]

\* max(floor, factor * median spacing), the median difference of consecutive
\* sorted pH values taken over the input
SpacingTolerance(floor, factor) ==
    LET sorted == SortInts(Range(pk_in.ph_values))
        gaps == [i \in 1..(Len(sorted) - 1) |-> RInt(sorted[i + 1] - sorted[i])]
    IN  RMax(floor, RMul(factor, MedianOver(gaps, 1..Len(gaps))))

\* C23: for a strictly increasing pH sequence any two distinct peaks returned
\* have apex pH values at least max(0.15, 3 * median spacing) apart and
\* intervals that do not overlap, the later one starting at least
\* max(0.05, 1.5 * median spacing) after the end of the earlier one.
C23_PeaksApart ==
    (PeakCallReturned /\ StrictlyIncreasing(pk_in.ph_values)) =>
        \A i, j \in 1..Len(pk_peaks) :
            i < j =>
                /\ RLeq(SpacingTolerance(R(3, 2), RInt(3)),
                        RInt(pk_peaks[j].ph_apex - pk_peaks[i].ph_apex))
                /\ RLeq(SpacingTolerance(R(1, 2), R(3, 2)),
                        RInt(pk_peaks[j].ph_start - pk_peaks[i].ph_end))

\* C23 witness: a strictly increasing trace for which two peaks were returned
C23_Witness ==
    /\ PeakCallReturned
    /\ StrictlyIncreasing(pk_in.ph_values)
    /\ Len(pk_peaks) >= 2
    /\ pk_peaks[1].ph_end < pk_peaks[2].ph_start

\* smoothed delta_b at the end index of merged event i minus smoothed delta_b
\* at its start index, both indices clamped to [0, n - 1]
EventStep(i) ==
    LET last == Len(pk_smoothed) - 1
        Clamped(k) == IF k < 0 THEN 0 ELSE IF k > last THEN last ELSE k
    IN  RSub(pk_smoothed[Clamped(pk_merged[i].end_idx) + 1],
             pk_smoothed[Clamped(pk_merged[i].start_idx) + 1])

\* |step| >= step_min and step >= -0.5 * step_min
PassesStepFilter(step, step_min) ==
    /\ RLeq(step_min, RAbs(step))
    /\ RLeq(RMul(R(-1, 2), step_min), step)

\* C24: for each merged event the step is the smoothed delta_b at the event's
\* end index minus that at its start index, and the event is emitted as a
\* peak if and only if |step| >= step_min and step >= -0.5 * step_min, where
\* step_min = max(5 * step_sigma, 1e-4).
C24_StepFilter ==
    PeakCallReturned =>
        /\ RLeq(StepFloor, StepMin(pk_smoothed))
        /\ \A q \in 1..Len(pk_quantified) : pk_quantified[q].peak_id \in 1..Len(pk_merged)
        /\ \A i \in 1..Len(pk_merged) :
              LET emitted == {q \in 1..Len(pk_quantified) : pk_quantified[q].peak_id = i}
              IN  /\ PassesStepFilter(EventStep(i), StepMin(pk_smoothed)) <=> emitted # {}
                  /\ \A q \in emitted :
                        /\ pk_quantified[q].delta_b_step = EventStep(i)
                        /\ pk_quantified[q].ph_start = pk_merged[i].ph_start
                        /\ pk_quantified[q].ph_apex = pk_merged[i].ph_apex
                        /\ pk_quantified[q].ph_end = pk_merged[i].ph_end
        /\ Len(pk_peaks) = Len(pk_quantified)

\* C24 witness: a call with a merged event that was emitted and one that was
\* discarded for a step below step_min
C24_Witness ==
    /\ PeakCallReturned
    /\ \E i \in 1..Len(pk_merged) :
          /\ PassesStepFilter(EventStep(i), StepMin(pk_smoothed))
          /\ \E q \in 1..Len(pk_peaks) : pk_peaks[q].delta_b_step = EventStep(i)
    /\ \E i \in 1..Len(pk_merged) :
          /\ RLess(RAbs(EventStep(i)), StepMin(pk_smoothed))
          /\ \A q \in 1..Len(pk_peaks) : pk_peaks[q].ph_apex # pk_merged[i].ph_apex

\* C28: every peak returned has a step of at least step_min, which is at least
\* 1e-4: no peak with a zero or negative step is emitted, however small the
\* negative step.
C28_PositiveSteps ==
    PeakCallReturned =>
        \A q \in 1..Len(pk_peaks) :
            /\ RLeq(StepMin(pk_smoothed), pk_peaks[q].delta_b_step)
            /\ RLeq(StepFloor, pk_peaks[q].delta_b_step)
            /\ RLess(Zero, pk_peaks[q].delta_b_step)

\* C28 witness: a call that returned a peak and discarded a merged event whose
\* step was negative and above -0.5 * step_min
C28_Witness ==
    /\ PeakCallReturned
    /\ pk_peaks # <<>>
    /\ \E i \in 1..Len(pk_merged) :
          /\ RLess(EventStep(i), Zero)
          /\ RLeq(RMul(R(-1, 2), StepMin(pk_smoothed)), EventStep(i))
          /\ \A q \in 1..Len(pk_peaks) : pk_peaks[q].ph_apex # pk_merged[i].ph_apex

-----------------------------------------------------------------------------
(* Claims about the anchoring of the constrained model *)

\* C12: in a non-empty run whose first row has measured sodium in
\* [0, 0.999 * c_b], the constrained model sodium of the first row equals that
\* measured sodium, so b_model = b_meas and delta_b = 0 at the first row; and
\* in every row delta_b = b_meas - b_model.
C12_AnchoredAtFirstRow ==
    (pr_pc = "done" /\ pr_raised = None /\ Len(pr_rows) > 0) =>
        /\ \A i \in 1..Len(pr_rows) :
              pr_rows[i].delta_b = RSub(pr_rows[i].b_meas, pr_rows[i].b_model)
        /\ (RLeq(Zero, pr_rows[1].na) /\ RLeq(pr_rows[1].na, UpperBound)) =>
              /\ pr_na_model_clamped[1] = pr_rows[1].na
              /\ pr_rows[1].b_model = pr_rows[1].b_meas
              /\ pr_rows[1].delta_b = Zero

\* C12 witness: a run whose first row has a non-zero dose within the bound
\* and whose raw model had to be moved to meet it, with a later row that does
\* not sit on the measurement.
C12_Witness ==
    /\ pr_pc = "done"
    /\ pr_raised = None
    /\ Len(pr_rows) > 1
    /\ RLess(Zero, pr_rows[1].na)
    /\ RLeq(pr_rows[1].na, UpperBound)
    /\ pr_na_model_clamped[1] = pr_rows[1].na
    /\ pr_final_processed[1].b_model # pr_rows[1].b_meas
    /\ \E i \in 2..Len(pr_rows) : pr_rows[i].delta_b # Zero

-----------------------------------------------------------------------------
(* Claims about the baseline window *)

\* C11: with no explicit end index the baseline window is the first
\* max(3, floor(n / 5)) of the n rows left after start_index (all of them when
\* n < 3); with an explicit end index e it is the rows [0, e) of those rows.
C11_BaselineWindow ==
    bw_pc = "done" =>
        LET n == Len(bw_rows)
            e == bw_in.baseline_end_index
            fifth == n \div 5
            k == IF e = NoValue
                 THEN IF n < 3 THEN n ELSE IF fifth > 3 THEN fifth ELSE 3
                 ELSE IF e[1] < n THEN e[1] ELSE n
        IN  /\ n = IF bw_in.n > bw_in.start_index THEN bw_in.n - bw_in.start_index ELSE 0
            /\ \A i \in 1..n : bw_rows[i] = bw_in.start_index + i - 1
            /\ Len(bw_window) = k
            /\ \A i \in 1..k : bw_window[i] = bw_rows[i]

\* a default window longer than the minimum of 3 rows, after a start index
C11_Witness ==
    /\ bw_pc = "done"
    /\ bw_in.baseline_end_index = NoValue
    /\ bw_in.start_index > 0
    /\ Len(bw_window) > 3

-----------------------------------------------------------------------------
(* Claims about solve_h *)

\* C13: solve_h first tries [1e-14, 1.0]; it widens once, to [1e-16, 10.0],
\* exactly when g has the same sign at both ends of the first bracket; it
\* fails with ValueError exactly when g also has the same sign at both ends of
\* the widened bracket; otherwise it returns a value inside the bracket it
\* selected.
C13_BracketWidenedOnce ==
    sh_pc = "done" =>
        LET same1 == sh_g[-14] = sh_g[0]
            same2 == sh_g[-16] = sh_g[1]
        IN  /\ sh_widenings = (IF same1 THEN 1 ELSE 0)
            /\ sh_bracket = (IF same1 THEN [lower |-> -16, upper |-> 1]
                                      ELSE [lower |-> -14, upper |-> 0])
            /\ (sh_raised = "ValueError") <=> (same1 /\ same2)
            /\ sh_raised \in {None, "ValueError"}
            /\ (sh_raised = None) <=> (sh_h # NoValue)
            /\ sh_h # NoValue =>
                  /\ sh_bracket.lower <= sh_h[1]
                  /\ sh_h[1] <= sh_bracket.upper

\* C13 witness: a root found only in the widened bracket, outside the first
C13_Witness ==
    /\ sh_pc = "done"
    /\ sh_g[-14] = sh_g[0]
    /\ sh_g[-16] # sh_g[1]
    /\ sh_widenings = 1
    /\ sh_h = Some(1)

-----------------------------------------------------------------------------
(* Claims about smooth_data *)

\* C16: for every input length, window length and polynomial order
\* smooth_data returns exactly as many values as it was given and does not
\* raise; an input of at most 3 values that is shorter than the window comes
\* back unchanged.
C16_SmoothKeepsLengthNoError ==
    sm_pc = "done" =>
        /\ sm_raised = None
        /\ sm_len = Len(sm_in.y)
        /\ (Len(sm_in.y) <= 3 /\ Len(sm_in.y) < sm_in.window_length) =>
              (sm_copied /\ sm_values = sm_in.y)

\* C26: whenever smooth_data hands its data to the smoothing filter, the
\* window length it uses is odd, at most the number of data points and
\* greater than the polynomial order it uses, for every data length.
C26_FilterWindowOddAndFits ==
    LET n == Len(sm_in.y)
        plan == SmoothPlan(n, sm_in.window_length, sm_in.polyorder)
    IN  (sm_pc = "done" /\ ~plan.copy) =>
            /\ plan.window_length % 2 = 1
            /\ plan.window_length <= n
            /\ plan.window_length > plan.polyorder

-----------------------------------------------------------------------------
(* Claims about the dose / sodium conversions *)

\* C17: for every c_b > 0 and every dose b > 0 the round trip dose -> sodium
\* -> dose returns b (within 1e-10 relative error).
C17_RoundTripEveryDose ==
    rt_pc = "done" => (rt_raised = None /\ rt_back = Some(FlPow2(rt_in.b)))

\* C17, for doses below the titrant concentration: for every c_b > 0 and
\* every b with 0 < b < c_b the round trip dose -> sodium -> dose returns b
\* (within 1e-10 relative error).
C17_RoundTripBelowCb ==
    (rt_pc = "done" /\ rt_in.b < rt_in.c_b) =>
        (rt_raised = None /\ rt_back = Some(FlPow2(rt_in.b)))

\* C17 witness: a dose a quarter of c_b, whose sodium value is neither the
\* dose nor c_b, brought back to the dose
C17_Witness ==
    /\ rt_pc = "done"
    /\ rt_in.b = rt_in.c_b - 2
    /\ rt_na # FlPow2(rt_in.b)
    /\ rt_na # FlPow2(rt_in.c_b)
    /\ rt_back = Some(FlPow2(rt_in.b))

-----------------------------------------------------------------------------
(* Claims about the callers' sequences *)

\* C18: process_titration_data, estimate_c_a, smooth_data,
\* find_zero_crossings and detect_and_quantify_peaks leave the caller's input
\* sequences as they were, and change no state outside what they return.
C18_InputsUnchanged ==
    [][/\ pr_in' = pr_in
       /\ est_in' = est_in
       /\ sm_in' = sm_in
       /\ zc_y' = zc_y
       /\ pk_in' = pk_in
       /\ chem' = chem
       /\ apiVars' = apiVars]_vars

\* C18 witness: find_zero_crossings returned after its fill loop replaced
\* the sign of a zero of the caller's array, which still holds the zero
C18_Witness ==
    /\ zc_pc = "done"
    /\ \E i \in 1..Len(zc_y) : RIsZero(zc_y[i]) /\ zc_signs[i] # 0
    /\ zc_crossings # <<>>

-----------------------------------------------------------------------------
(* Claims about export *)

\* the step that answers an export request
ExportStep == api_served' = api_served + 1 /\ api_last' = "export"

\* C19: an export request made when no compute result is stored is rejected
\* with status 400, "No computation data available", and leaves the stored
\* last-result state unchanged; a session export in CSV format is rejected
\* with status 400.
C19_ExportRejected ==
    [][ExportStep =>
        /\ last_processed = NoValue =>
              /\ exp_response'[1].status = 400
              /\ exp_response'[1].detail = "No computation data available to export."
              /\ lastState' = lastState
        /\ (exp_request'[1].data_type = "session" /\ exp_request'[1].format = "csv") =>
              exp_response'[1].status = 400]_vars

\* C19 witness: a session export in CSV format, asked for after a compute
\* request that stored nothing, rejected with status 400
C19_Witness ==
    /\ api_last = "export"
    /\ api_response # NoValue
    /\ last_processed = NoValue
    /\ exp_request = Some([format |-> "csv", data_type |-> "session"])
    /\ exp_response[1].status = 400

\* C20: a compute request with numeric pH and time rows succeeds with status
\* 200 and stores its result, so that a following export of the processed
\* data or the peaks (CSV or JSON) or of the session (JSON) succeeds with
\* status 200.
C20_ComputeThenExportSucceeds ==
    (api_response # NoValue /\ FirstBadRow(api_request[1].rows) = 0) =>
        /\ api_response[1].status = 200
        /\ last_processed # NoValue
        /\ (/\ api_last = "export"
            /\ ~(exp_request[1].data_type = "session" /\ exp_request[1].format = "csv")) =>
               exp_response[1].status = 200

-----------------------------------------------------------------------------
(* Claims about the stored last result *)

\* the step that answers a compute request
ComputeStep == api_served' = api_served + 1 /\ api_last' = "compute"

AllStored ==
    /\ last_settings # NoValue
    /\ last_processed # NoValue
    /\ last_model # NoValue
    /\ last_peaks # NoValue
    /\ last_c_a # NoValue

PartlyStored == last_processed = NoValue <=> last_peaks # NoValue

=============================================================================
